---- MODULE Spec2Model ----
(***************************************************************************)
(* Resource-bounded task distribution engine of bikash119/scraper:         *)
(* WorkerPool and WorkerPoolManager (src/core/worker-pool-manager.ts),     *)
(* TaskQueue (src/core/task-queue.ts), BaseController.execute              *)
(* (src/controllers/base-controller.ts), BaseWorker                        *)
(* (src/workers/base-worker.ts) and the pool-based ScrapingSession.        *)
(*                                                                         *)
(* The specifications share the variables:                                 *)
(*   SpecPool       one WorkerPool and the callers of its operations,      *)
(*   SpecMgr        the manager with its registered pools,                 *)
(*   SpecQueue      one TaskQueue,                                         *)
(*   SpecDist       distributeTasks as a pure function of its inputs,      *)
(*   Spec           one controller running execute over a flat list or a   *)
(*                  pool of distinct workers shared with another client,   *)
(*   SpecExclusive  the controller as the only user of its pool, to which  *)
(*                  a worker may be added twice,                           *)
(*   SpecWorker     one BaseWorker serving fetch and fetchBatch calls,     *)
(*   SpecSession    one ScrapingSession: initialize, then execute on one   *)
(*                  of its controllers,                                    *)
(*   SpecV2         RegistrationOfficeControllerV2 on a legacy WorkerPool  *)
(*                  shared with another client (SpecV2Live adds the        *)
(*                  fairness of the event loop),                           *)
(*   SpecQSession   the queue-based ScrapingSession: monitor, start, stop. *)
(***************************************************************************)
EXTENDS Integers, Sequences, FiniteSets, TLC

(* ------------------------------ bounds --------------------------------- *)

\* worker objects that exist: 1..NumWorkerIds
NumWorkerIds == 2

\* largest resourceLimits.maxConcurrentWorkers a manager is built with
MaxLimit == 2

\* largest maxWorkers a pool is asked for
MaxPoolSize == 2

\* largest ControllerConfig.maxConcurrentWorkers / maxTasksPerWorker
MaxConc == 2

MaxPerWorker == 2

\* longest task list submitted to execute
MaxTasks == 3

\* longest task list given to distributeTasks on its own
MaxDistTasks == 5

\* most tasks added to one TaskQueue
MaxQueueTasks == 3

\* largest batchSize passed to getNextBatch
MaxBatchSize == 2

\* largest batch passed to a worker's fetchBatch
MaxWorkerBatch == 4

\* largest resourceLimits.maxConcurrentWorkers a session is built with
MaxSessionLimit == 5

\* workers of the legacy pool and of the V2 controller's configuration
MaxV2Workers == 2

\* maxTasksPerWorker of the V2 controller
MaxV2PerWorker == 2

\* tasks the V2 controller's queue ever holds
MaxV2Tasks == 3

WorkerIds == 1..NumWorkerIds

PoolNames == {"district", "registration-office"}

(* ------------------------------ helpers -------------------------------- *)

Min(a, b) == IF a <= b THEN a ELSE b

\* Math.ceil(a / b) for a >= 0, b >= 1
Ceil(a, b) == (a + b - 1) \div b

\* Array.prototype.includes
Includes(s, x) == \E i \in 1..Len(s) : s[i] = x

\* s without its last element (Array.prototype.pop)
Front(s) == SubSeq(s, 1, Len(s) - 1)

RECURSIVE SumOver(_, _)
\* sum of f[x] for x in S
SumOver(f, S) ==
  IF S = {} THEN 0
  ELSE LET x == CHOOSE y \in S : TRUE IN f[x] + SumOver(f, S \ {x})

\* all sequences over S of length at most n
SeqsUpTo(S, n) == UNION {[1..m -> S] : m \in 0..n}

\* worker objects are interchangeable: a call passes a worker the holder
\* already has, or the new worker with the smallest unused id
KnownOrNext(ws, w) ==
  \/ Includes(ws, w)
  \/ /\ ~Includes(ws, w)
     /\ \A v \in WorkerIds : v < w => Includes(ws, v)

\* a worker list in which every worker is known or next
KnownOrNextAll(ws) == \A i \in 1..Len(ws) : KnownOrNext(SubSeq(ws, 1, i - 1), ws[i])

(* ------------------------------ WorkerPool ----------------------------- *)
\* A pool is [maxWorkers, workers, availableWorkers]; the operations return
\* the pool after the call, the *Ret operators what the call returns.

NewPoolObject(maxWorkers) ==
  [maxWorkers |-> maxWorkers, workers |-> <<>>, availableWorkers |-> <<>>]

addWorkerRet(p, w) == ~(Len(p.workers) >= p.maxWorkers)

addWorkerNoLimit(p, w) ==
  [p EXCEPT !.workers = Append(@, w), !.availableWorkers = Append(@, w)]

addWorker(p, w) ==
  IF Len(p.workers) >= p.maxWorkers
  THEN p
  ELSE [p EXCEPT !.workers = Append(@, w), !.availableWorkers = Append(@, w)]

\* 0 stands for undefined
borrowWorkerRet(p) ==
  IF Len(p.availableWorkers) = 0 THEN 0
  ELSE p.availableWorkers[Len(p.availableWorkers)]

borrowWorker(p) ==
  IF Len(p.availableWorkers) = 0 THEN p
  ELSE [p EXCEPT !.availableWorkers = Front(@)]

returnWorkerRet(p, w) ==
  IF ~Includes(p.workers, w) THEN FALSE
  ELSE IF Includes(p.availableWorkers, w) THEN FALSE
  ELSE TRUE

returnWorker(p, w) ==
  IF returnWorkerRet(p, w)
  THEN [p EXCEPT !.availableWorkers = Append(@, w)]
  ELSE p

getAvailableCount(p) == Len(p.availableWorkers)

getTotalCount(p) == Len(p.workers)

RECURSIVE AddAll(_, _)
\* the constructor: initialWorkers.forEach(worker => this.addWorker(worker))
AddAll(p, ws) ==
  IF ws = <<>> THEN p ELSE AddAll(addWorker(p, Head(ws)), Tail(ws))

WorkerPoolNew(maxWorkers, initialWorkers) ==
  AddAll(NewPoolObject(maxWorkers), initialWorkers)

(* a WorkerPool and the callers of its three operations *)

VARIABLES
  wp,               \* the WorkerPool object
  wpHeld,           \* per worker, the borrows of it that were not yet returned
  wpCall            \* the last call on the pool: [op, worker, ok]

poolVars == <<wp, wpHeld, wpCall>>

NoCall == [op |-> "none", worker |-> 0, ok |-> FALSE]

IdlePoolVars ==
  /\ wp = NewPoolObject(0)
  /\ wpHeld = [w \in WorkerIds |-> 0]
  /\ wpCall = NoCall

\* pool.addWorker(w)
WpAddWorker(w) ==
  /\ wp' = addWorker(wp, w)
  /\ wpCall' = [op |-> "addWorker", worker |-> w, ok |-> addWorkerRet(wp, w)]
  /\ UNCHANGED wpHeld

\* pool.borrowWorker(); the caller keeps what it got
WpBorrowWorker ==
  LET w == borrowWorkerRet(wp) IN
  /\ wp' = borrowWorker(wp)
  /\ wpCall' = [op |-> "borrowWorker", worker |-> w, ok |-> w # 0]
  /\ wpHeld' = IF w # 0 THEN [wpHeld EXCEPT ![w] = @ + 1] ELSE wpHeld

\* pool.returnWorker(w) with any worker; an accepted return ends one borrow
WpReturnWorker(w) ==
  /\ wp' = returnWorker(wp, w)
  /\ wpCall' = [op |-> "returnWorker", worker |-> w, ok |-> returnWorkerRet(wp, w)]
  /\ wpHeld' = IF returnWorkerRet(wp, w) /\ wpHeld[w] > 0
               THEN [wpHeld EXCEPT ![w] = @ - 1] ELSE wpHeld

(* --------------------------- WorkerPoolManager ------------------------- *)

VARIABLES
  resourceLimits,   \* the manager's maxConcurrentWorkers
  pools,            \* Map name -> WorkerPool; NoPool where the name is absent
  mgrResult,        \* outcome of the last manager call
  mgrCall           \* its arguments: [name, maxWorkers]

mgrVars == <<resourceLimits, pools, mgrResult, mgrCall>>

NoMgrCall == [name |-> "none", maxWorkers |-> 0]

NoPool == [maxWorkers |-> 0, workers |-> <<>>, availableWorkers |-> <<>>, absent |-> TRUE]

Registered == {n \in PoolNames : pools[n] # NoPool}

\* Array.from(this.pools.values()).reduce((sum, pool) => sum + pool.getTotalCount(), 0)
TotalWorkers == SumOver([n \in PoolNames |-> getTotalCount(pools[n])], Registered)

\* variant: the workers of the existing pools are not subtracted
RemainingCapacityIgnoresPools == resourceLimits

\* this.resourceLimits.maxConcurrentWorkers - totalWorkers
RemainingCapacity == resourceLimits - TotalWorkers

\* variant: the available count is taken from the total counts
getStatsAvailableIsTotal ==
  [totalWorkers     |-> TotalWorkers,
   availableWorkers |-> TotalWorkers,
   poolCount        |-> Cardinality(Registered)]

getStats ==
  [totalWorkers     |-> TotalWorkers,
   availableWorkers |-> SumOver([n \in PoolNames |-> getAvailableCount(pools[n])], Registered),
   poolCount        |-> Cardinality(Registered)]

InitMgrVars ==
  /\ resourceLimits \in 1..MaxLimit
  /\ pools = [n \in PoolNames |-> NoPool]
  /\ mgrResult = "none"
  /\ mgrCall = NoMgrCall

\* variant: the name is not checked against the registered pools
createPoolNoDuplicateCheck(name, maxWorkers, initialWorkers) ==
  /\ mgrCall' = [name |-> name, maxWorkers |-> maxWorkers]
  /\ IF RemainingCapacity <= 0
     THEN /\ mgrResult' = "exhausted"
          /\ UNCHANGED <<resourceLimits, pools>>
     ELSE /\ pools' = [pools EXCEPT ![name] =
                         WorkerPoolNew(Min(maxWorkers, RemainingCapacity), initialWorkers)]
          /\ mgrResult' = "created"
          /\ UNCHANGED resourceLimits

createPool(name, maxWorkers, initialWorkers) ==
  /\ mgrCall' = [name |-> name, maxWorkers |-> maxWorkers]
  /\ IF pools[name] # NoPool
     THEN /\ mgrResult' = "duplicate"
          /\ UNCHANGED <<resourceLimits, pools>>
     ELSE IF RemainingCapacity <= 0
     THEN /\ mgrResult' = "exhausted"
          /\ UNCHANGED <<resourceLimits, pools>>
     ELSE /\ pools' = [pools EXCEPT ![name] =
                         WorkerPoolNew(Min(maxWorkers, RemainingCapacity), initialWorkers)]
          /\ mgrResult' = "created"
          /\ UNCHANGED resourceLimits

removePoolKeepsPool(name) ==
  /\ mgrResult' = IF pools[name] # NoPool THEN "removed" ELSE "notfound"
  /\ mgrCall' = [name |-> name, maxWorkers |-> 0]
  /\ UNCHANGED <<resourceLimits, pools>>

removePool(name) ==
  /\ pools' = [pools EXCEPT ![name] = NoPool]
  /\ mgrResult' = IF pools[name] # NoPool THEN "removed" ELSE "notfound"
  /\ mgrCall' = [name |-> name, maxWorkers |-> 0]
  /\ UNCHANGED resourceLimits

\* calls on a pool obtained from getPool(name)
PoolAddWorker(name, w) ==
  /\ pools[name] # NoPool
  /\ pools' = [pools EXCEPT ![name] = addWorker(@, w)]
  /\ mgrResult' = IF addWorkerRet(pools[name], w) THEN "added" ELSE "full"
  /\ mgrCall' = [name |-> name, maxWorkers |-> 0]
  /\ UNCHANGED resourceLimits

PoolBorrowWorker(name) ==
  /\ pools[name] # NoPool
  /\ pools' = [pools EXCEPT ![name] = borrowWorker(@)]
  /\ mgrResult' = IF borrowWorkerRet(pools[name]) # 0 THEN "borrowed" ELSE "none-available"
  /\ mgrCall' = [name |-> name, maxWorkers |-> 0]
  /\ UNCHANGED resourceLimits

PoolReturnWorker(name, w) ==
  /\ pools[name] # NoPool
  /\ pools' = [pools EXCEPT ![name] = returnWorker(@, w)]
  /\ mgrResult' = IF returnWorkerRet(pools[name], w) THEN "returned" ELSE "not-returned"
  /\ mgrCall' = [name |-> name, maxWorkers |-> 0]
  /\ UNCHANGED resourceLimits


(* ------------------------------- TaskQueue ----------------------------- *)
\* A TaskWithStatus is [id, status, attempts, lastAttempt, error]; the uuid of
\* a task is its position in the queue, Date and error text are set or unset.

VARIABLES
  tqTasks,          \* this.tasks
  tqCall,           \* the last call on the queue: [op, batchSize, taskId, ret]
  tqDraws           \* per task, how often getNextBatch returned it

queueVars == <<tqTasks, tqCall, tqDraws>>

TaskStatuses == {"pending", "in_progress", "completed", "failed"}

NoQueueCall == [op |-> "none", batchSize |-> 0, taskId |-> 0, ret |-> <<>>]

IdleQueueVars ==
  /\ tqTasks = <<>>
  /\ tqCall = NoQueueCall
  /\ tqDraws = <<>>

NewTask(id) ==
  [id |-> id, status |-> "pending", attempts |-> 0,
   lastAttempt |-> "unset", error |-> "unset"]

addTask(ts) == Append(ts, NewTask(Len(ts) + 1))

IsPending(t) == t.status = "pending"

\* Array.prototype.slice(0, n) for n >= 0
Slice(s, n) == SubSeq(s, 1, Min(n, Len(s)))

\* ids of the tasks of a list, in order
Ids(ts) == [i \in 1..Len(ts) |-> ts[i].id]

\* variant: the batch is cut from all tasks, not from the pending ones
getNextBatchRetNoFilter(ts, batchSize) == Ids(Slice(ts, batchSize))

\* this.tasks.filter(task => task.status === 'pending').slice(0, batchSize)
getNextBatchRet(ts, batchSize) == Ids(Slice(SelectSeq(ts, IsPending), batchSize))

\* variant: the draw is not counted
MarkInProgressNoCount(t) == [t EXCEPT !.status = "in_progress", !.lastAttempt = "set"]

\* the body of pendingTasks.forEach
MarkInProgress(t) ==
  [t EXCEPT !.status = "in_progress", !.attempts = @ + 1, !.lastAttempt = "set"]

\* the queue after getNextBatch(batchSize)
getNextBatch(ts, batchSize) ==
  LET drawn == getNextBatchRet(ts, batchSize) IN
  [i \in 1..Len(ts) |-> IF Includes(drawn, ts[i].id) THEN MarkInProgress(ts[i]) ELSE ts[i]]

\* this.tasks.find(t => t.id === taskId): its position, 0 if there is none
FindTask(ts, taskId) ==
  IF \E i \in 1..Len(ts) : ts[i].id = taskId
  THEN CHOOSE i \in 1..Len(ts) :
         ts[i].id = taskId /\ \A j \in 1..(i - 1) : ts[j].id # taskId
  ELSE 0

\* the queue after updateTaskStatus(taskId, st, error); withError says
\* whether an error text was passed
updateTaskStatus(ts, taskId, st, withError) ==
  LET i == FindTask(ts, taskId) IN
  IF i = 0 THEN ts
  ELSE [ts EXCEPT ![i] = [@ EXCEPT !.status = st,
                                    !.error = IF withError THEN "set" ELSE @]]

\* variant: a task in progress counts as done
isCompleteNotPending(ts) ==
  \A i \in 1..Len(ts) : ts[i].status # "pending"

\* this.tasks.every(task => task.status is completed or failed)
isComplete(ts) ==
  \A i \in 1..Len(ts) : ts[i].status = "completed" \/ ts[i].status = "failed"

\* this.tasks.filter(t => t.status === st).length
CountStatus(ts, st) == Len(SelectSeq(ts, LAMBDA t : t.status = st))

getTaskCounts(ts) ==
  [pending    |-> CountStatus(ts, "pending"),
   inProgress |-> CountStatus(ts, "in_progress"),
   completed  |-> CountStatus(ts, "completed"),
   failed     |-> CountStatus(ts, "failed"),
   total      |-> Len(ts)]

\* this.tasks.some(task => task.status === 'pending')
hasPendingTasks(ts) == \E i \in 1..Len(ts) : ts[i].status = "pending"

QueueAddTask ==
  /\ Len(tqTasks) < MaxQueueTasks
  /\ tqTasks' = addTask(tqTasks)
  /\ tqDraws' = Append(tqDraws, 0)
  /\ tqCall' = [op |-> "addTask", batchSize |-> 0, taskId |-> Len(tqTasks) + 1, ret |-> <<>>]

QueueGetNextBatch(batchSize) ==
  LET drawn == getNextBatchRet(tqTasks, batchSize) IN
  /\ tqTasks' = getNextBatch(tqTasks, batchSize)
  /\ tqDraws' = [i \in 1..Len(tqDraws) |->
                   IF Includes(drawn, tqTasks[i].id) THEN tqDraws[i] + 1 ELSE tqDraws[i]]
  /\ tqCall' = [op |-> "getNextBatch", batchSize |-> batchSize, taskId |-> 0, ret |-> drawn]

QueueUpdateTaskStatus(taskId, st, withError) ==
  /\ tqTasks' = updateTaskStatus(tqTasks, taskId, st, withError)
  /\ tqCall' = [op |-> "updateTaskStatus", batchSize |-> 0, taskId |-> taskId, ret |-> <<>>]
  /\ UNCHANGED tqDraws

(* ----------------------------- BaseController -------------------------- *)

VARIABLES
  config,           \* [maxConcurrentWorkers, maxTasksPerWorker, workerLaunchDelayMs]
  usePool,          \* TRUE iff this.workerPool is set
  workers,          \* this.workers, the flat worker list
  pool,             \* the WorkerPool the controller is bound to
  status,           \* this.status
  pc,               \* the last accepted execute call: idle, running, resolved, threw
  tasks,            \* the task list of that call (a task is its id)
  taskBatches,      \* what distributeTasks returned
  bstate,           \* per batch closure: skipped, sleeping, fetching, settled
  bworker,          \* per batch: the worker its running closure holds, 0 if none
  borrowedWorkers,  \* executeTaskBatches' local list
  results,          \* executeTaskBatches' local result list
  ret,              \* what execute returned
  lastError,        \* error an execute call threw at its entry in the last step, else "none"
  boutcome,         \* per batch, what the worker's fetchBatch did: none, returned, threw
  launchOrder,      \* batch numbers in the order their fetchBatch was invoked
  workerFailed,     \* ids of the tasks the workers reported as failed
  availAtSubmit,    \* workers available when the call was submitted
  extHeld           \* the worker held by the pool's other client, 0 if none

ctlVars == <<config, usePool, workers, pool, status, pc, tasks, taskBatches,
             bstate, bworker, borrowedWorkers, results, ret, lastError,
             boutcome, launchOrder, workerFailed, availAtSubmit, extHeld>>

(* ------------------------------ BaseWorker ------------------------------ *)

VARIABLES
  bw                \* one worker and its current fetch or fetchBatch call

workerVars == <<bw>>

(* --------------------------- ScrapingSession ---------------------------- *)

VARIABLES
  session,          \* [resourceLimits, pools, controllers, pc]
  sessBound         \* the controller handed out by getController, or none

sessionVars == <<session, sessBound>>

(* ------------- RegistrationOfficeControllerV2 and its session ----------- *)

VARIABLES
  lp,               \* the legacy WorkerPool: [maxWorkers, workers, busyWorkers]
  v2,               \* the controller and its fetchRegistrationOffices call
  otherHeld,        \* the workers another client of the pool holds
  qs,               \* the queue-based session: monitor, start() and stop()
  version           \* the session's scraping_versions record

v2Vars == <<lp, v2, otherHeld, qs, version>>

vars == <<mgrVars, ctlVars, poolVars, queueVars, workerVars, sessionVars, v2Vars>>

InitialStatus ==
  [activeWorkers |-> 0, pendingTasks |-> 0, completedTasks |-> 0,
   failedTasks |-> 0, isExecuting |-> FALSE]

\* the task list with ids 1..n in submission order
TaskList(n) == [i \in 1..n |-> i]

getStatus == status

(* distributeTasks *)

\* workers the controller can count on: pool.getAvailableCount() or workers.length
\* variant: the pool's total count is used
AvailableWorkerCountTotal(up, p, ws) == IF up THEN getTotalCount(p) ELSE Len(ws)

AvailableWorkerCount(up, p, ws) == IF up THEN getAvailableCount(p) ELSE Len(ws)

\* variant: the available-worker term is left out of the minimum
\* variant: the number of tasks is left out of the minimum
NumWorkersNoCeil(cfg, avail, n) ==
  Min(cfg.maxConcurrentWorkers, avail)

\* variant: the configured maximum is left out of the minimum
NumWorkersNoConc(cfg, avail, n) ==
  Min(avail, Ceil(n, cfg.maxTasksPerWorker))

NumWorkersNoAvail(cfg, avail, n) ==
  Min(cfg.maxConcurrentWorkers, Ceil(n, cfg.maxTasksPerWorker))

NumWorkers(cfg, avail, n) ==
  Min(Min(cfg.maxConcurrentWorkers, avail), Ceil(n, cfg.maxTasksPerWorker))

\* variant: the 1-based position is used as the index
BatchIndexOneBased(index, numWorkers) == (index + 1) % numWorkers

\* index and result are 0-based as in the source
BatchIndex(index, numWorkers) == index % numWorkers

RECURSIVE DistributeFrom(_, _, _, _)
\* tasks.forEach((task, index) => batches[index % numWorkers].push(task))
DistributeFrom(ts, pos, numWorkers, batches) ==
  IF pos > Len(ts) THEN batches
  ELSE DistributeFrom(ts, pos + 1, numWorkers,
         [batches EXCEPT ![BatchIndex(pos - 1, numWorkers) + 1] = Append(@, ts[pos])])

\* numWorkers = 0 with a non-empty list: batches[NaN].push throws a TypeError
distributeTasksThrows(ts, numWorkers) == numWorkers = 0 /\ Len(ts) > 0

distributeTasks(ts, numWorkers) ==
  DistributeFrom(ts, 1, numWorkers, [b \in 1..numWorkers |-> <<>>])

(* executeTaskBatches: the per-batch closure *)

\* what the closures read and write: a record of the fields
\* pool, borrowedWorkers, results, status, bstate, bworker, boutcome, launchOrder
ClosureState ==
  [pool |-> pool, borrowedWorkers |-> borrowedWorkers, results |-> results,
   status |-> status, bstate |-> bstate, bworker |-> bworker, boutcome |-> boutcome,
   launchOrder |-> launchOrder]

\* a TaskResult is [taskId, success, error]; error is none, task or batch
WorkerResults(batch, failset) ==
  [j \in 1..Len(batch) |->
     [taskId |-> batch[j], success |-> batch[j] \notin failset,
      error |-> IF batch[j] \in failset THEN "task" ELSE "none"]]

\* variant: one failure result for the batch instead of one per task
FailureResultsFirstOnly(batch) ==
  [j \in 1..Min(1, Len(batch)) |-> [taskId |-> batch[j], success |-> FALSE, error |-> "batch"]]

\* batch.map(task => ({taskId: task.id, success: false, error, timestamp}))
FailureResults(batch) ==
  [j \in 1..Len(batch) |-> [taskId |-> batch[j], success |-> FALSE, error |-> "batch"]]

CountSuccess(rs) == Cardinality({j \in 1..Len(rs) : rs[j].success})

CountFailed(rs) == Cardinality({j \in 1..Len(rs) : ~rs[j].success})

\* variant: pendingTasks is not decremented
OnBatchResultsKeepPending(st, i, batch, batchResults) ==
  [st EXCEPT !.results = Append(@, [workerId |-> i, results |-> batchResults]),
             !.status.completedTasks = @ + CountSuccess(batchResults),
             !.status.failedTasks = @ + CountFailed(batchResults),
             !.boutcome[i] = "returned"]

\* the try block after `await worker.fetchBatch(batch)` resolved
OnBatchResults(st, i, batch, batchResults) ==
  [st EXCEPT !.results = Append(@, [workerId |-> i, results |-> batchResults]),
             !.status.pendingTasks = @ - Len(batch),
             !.status.completedTasks = @ + CountSuccess(batchResults),
             !.status.failedTasks = @ + CountFailed(batchResults),
             !.boutcome[i] = "returned"]

\* variant: the catch block counts the failures but pushes no results
OnBatchErrorNoResults(st, i, batch) ==
  [st EXCEPT !.status.pendingTasks = @ - Len(batch),
             !.status.failedTasks = @ + Len(batch),
             !.boutcome[i] = "threw"]

\* the catch block: fetchBatch threw or rejected
OnBatchError(st, i, batch) ==
  [st EXCEPT !.results = Append(@, [workerId |-> i, results |-> FailureResults(batch)]),
             !.status.pendingTasks = @ - Len(batch),
             !.status.failedTasks = @ + Len(batch),
             !.boutcome[i] = "threw"]

\* the finally block; the closure ends and lets go of its worker reference
BatchFinally(st, i) ==
  LET worker == st.bworker[i] IN
  [st EXCEPT !.status.activeWorkers = @ - 1,
             !.pool = IF usePool /\ Includes(st.borrowedWorkers, worker)
                      THEN returnWorker(@, worker) ELSE @,
             !.bstate[i] = "settled",
             !.bworker[i] = 0]

\* activeWorkers++ and the call of fetchBatch; a synchronous throw is caught
\* and cleaned up before the closure yields
CallFetchBatch(st, i, batch, throws) ==
  LET st1 == [st EXCEPT !.status.activeWorkers = @ + 1,
                        !.launchOrder = Append(@, i)] IN
  IF throws THEN BatchFinally(OnBatchError(st1, i, batch), i)
  ELSE [st1 EXCEPT !.bstate[i] = "fetching"]

\* variant: the first batch waits for the launch delay too
LaunchSleepsAll(i) == config.workerLaunchDelayMs # 0

\* i is 1-based here, the source's i is i - 1
LaunchSleeps(i) == (i - 1) > 0 /\ config.workerLaunchDelayMs # 0

StartClosure(st, i, batch, throws) ==
  IF LaunchSleeps(i) THEN [st EXCEPT !.bstate[i] = "sleeping"]
  ELSE CallFetchBatch(st, i, batch, throws)

\* one iteration of the launch loop
LaunchIter(st, i, batches, syncThrow) ==
  IF Len(batches[i]) = 0 THEN st
  ELSE
    LET worker == IF usePool THEN borrowWorkerRet(st.pool)
                  ELSE workers[((i - 1) % Len(workers)) + 1]
        st1 == IF usePool
               THEN [st EXCEPT !.pool = borrowWorker(@),
                               !.borrowedWorkers = IF worker # 0 THEN Append(@, worker) ELSE @]
               ELSE st
    IN IF worker = 0 THEN st1
       ELSE StartClosure([st1 EXCEPT !.bworker[i] = worker], i, batches[i], i \in syncThrow)

RECURSIVE LaunchFrom(_, _, _, _)
LaunchFrom(st, i, batches, syncThrow) ==
  IF i > Len(batches) THEN st
  ELSE LaunchFrom(LaunchIter(st, i, batches, syncThrow), i + 1, batches, syncThrow)

RECURSIVE Flatten(_)
\* results.flatMap(result => result.results)
Flatten(rs) == IF rs = <<>> THEN <<>> ELSE Head(rs).results \o Flatten(Tail(rs))

SetClosureState(st) ==
  /\ pool' = st.pool
  /\ borrowedWorkers' = st.borrowedWorkers
  /\ results' = st.results
  /\ status' = st.status
  /\ bstate' = st.bstate
  /\ bworker' = st.bworker
  /\ boutcome' = st.boutcome
  /\ launchOrder' = st.launchOrder

(* execute *)

\* the status written at the start of an accepted call
ResetStatus(n) ==
  [activeWorkers |-> 0, pendingTasks |-> n, completedTasks |-> 0,
   failedTasks |-> 0, isExecuting |-> TRUE]

\* variant: the catch block does not reset isExecuting
ExecuteCatchKeepsFlag(s) == [s EXCEPT !.activeWorkers = 0]

\* the catch block of execute
ExecuteCatch(s) == [s EXCEPT !.isExecuting = FALSE, !.activeWorkers = 0]

\* variant: the counters are recomputed but isExecuting is left set
FinalStatusKeepsFlag(s, flatResults) ==
  [s EXCEPT !.completedTasks = CountSuccess(flatResults),
            !.failedTasks = CountFailed(flatResults),
            !.pendingTasks = 0,
            !.activeWorkers = 0]

\* the status written after the join
FinalStatus(s, flatResults) ==
  [s EXCEPT !.completedTasks = CountSuccess(flatResults),
            !.failedTasks = CountFailed(flatResults),
            !.pendingTasks = 0,
            !.activeWorkers = 0,
            !.isExecuting = FALSE]

\* execute(tasks) up to its first suspension: the guards, the reset,
\* distributeTasks and the whole launch loop of executeTaskBatches
Execute(n, syncThrow) ==
  /\ ~status.isExecuting
  /\ ~(~usePool /\ Len(workers) = 0)
  /\ LET ts == TaskList(n)
         avail == AvailableWorkerCount(usePool, pool, workers)
         numWorkers == NumWorkers(config, avail, n)
     IN /\ tasks' = ts
        /\ availAtSubmit' = avail
        /\ lastError' = "none"
        /\ ret' = <<>>
        /\ workerFailed' = {}
        /\ IF distributeTasksThrows(ts, numWorkers)
           THEN /\ status' = ExecuteCatch(ResetStatus(n))
                /\ pc' = "threw"
                /\ taskBatches' = <<>>
                /\ bstate' = <<>>
                /\ bworker' = <<>>
                /\ boutcome' = <<>>
                /\ launchOrder' = <<>>
                /\ borrowedWorkers' = <<>>
                /\ results' = <<>>
                /\ UNCHANGED pool
           ELSE LET batches == distributeTasks(ts, numWorkers)
                    st0 == [pool |-> pool, borrowedWorkers |-> <<>>, results |-> <<>>,
                            status |-> ResetStatus(n),
                            bstate |-> [b \in 1..numWorkers |-> "skipped"],
                            bworker |-> [b \in 1..numWorkers |-> 0],
                            boutcome |-> [b \in 1..numWorkers |-> "none"],
                            launchOrder |-> <<>>]
                IN /\ taskBatches' = batches
                   /\ pc' = "running"
                   /\ SetClosureState(LaunchFrom(st0, 1, batches, syncThrow))
  /\ UNCHANGED <<config, usePool, workers, extHeld, mgrVars, poolVars, queueVars, workerVars, sessionVars, v2Vars>>

\* ids of the tasks of batch i
BatchTasks(i) == {taskBatches[i][j] : j \in 1..Len(taskBatches[i])}

\* the launch delay of batch i elapsed; equal timers fire in launch order
BatchWake(i, throws) ==
  /\ pc = "running"
  /\ i \in 1..Len(bstate)
  /\ bstate[i] = "sleeping"
  /\ \A j \in 1..(i - 1) : bstate[j] # "sleeping"
  /\ SetClosureState(CallFetchBatch(ClosureState, i, taskBatches[i], throws))
  /\ lastError' = "none"
  /\ UNCHANGED <<config, usePool, workers, pc, tasks, taskBatches, ret,
                 workerFailed, availAtSubmit, extHeld, mgrVars, poolVars, queueVars, workerVars, sessionVars, v2Vars>>

\* the worker's fetchBatch resolved with one result per task, in input order
BatchResolve(i, failset) ==
  /\ pc = "running"
  /\ i \in 1..Len(bstate)
  /\ bstate[i] = "fetching"
  /\ failset \subseteq BatchTasks(i)
  /\ SetClosureState(
       BatchFinally(
         OnBatchResults(ClosureState, i, taskBatches[i],
                        WorkerResults(taskBatches[i], failset)), i))
  /\ workerFailed' = workerFailed \cup failset
  /\ lastError' = "none"
  /\ UNCHANGED <<config, usePool, workers, pc, tasks, taskBatches, ret,
                 availAtSubmit, extHeld, mgrVars, poolVars, queueVars, workerVars, sessionVars, v2Vars>>

\* the worker's fetchBatch rejected
BatchReject(i) ==
  /\ pc = "running"
  /\ i \in 1..Len(bstate)
  /\ bstate[i] = "fetching"
  /\ SetClosureState(BatchFinally(OnBatchError(ClosureState, i, taskBatches[i]), i))
  /\ lastError' = "none"
  /\ UNCHANGED <<config, usePool, workers, pc, tasks, taskBatches, ret,
                 workerFailed, availAtSubmit, extHeld, mgrVars, poolVars, queueVars, workerVars, sessionVars, v2Vars>>

AllBatchesSettled == \A i \in 1..Len(bstate) : bstate[i] \in {"skipped", "settled"}

\* Promise.all resolved: execute flattens, writes the final status, returns;
\* the locals of executeTaskBatches and of its closures are gone
ExecuteContinue ==
  /\ pc = "running"
  /\ AllBatchesSettled
  /\ LET flatResults == Flatten(results)
     IN /\ status' = FinalStatus(status, flatResults)
        /\ ret' = flatResults
  /\ pc' = "resolved"
  /\ results' = <<>>
  /\ borrowedWorkers' = <<>>
  /\ lastError' = "none"
  /\ UNCHANGED <<config, usePool, workers, pool, tasks, taskBatches, bstate, bworker,
                 boutcome, launchOrder, workerFailed, availAtSubmit, extHeld, mgrVars, poolVars, queueVars, workerVars, sessionVars, v2Vars>>

\* variant: the status is reset before the isExecuting check
ExecuteWhileExecutingAfterReset ==
  /\ status.isExecuting
  /\ \E n \in 0..MaxTasks : status' = ResetStatus(n)
  /\ lastError' = "already-executing"
  /\ UNCHANGED <<config, usePool, workers, pool, pc, tasks, taskBatches,
                 bstate, bworker, borrowedWorkers, results, ret, boutcome, launchOrder,
                 workerFailed, availAtSubmit, extHeld, mgrVars, poolVars, queueVars, workerVars, sessionVars, v2Vars>>

\* execute called while a call is running: throws before touching anything
ExecuteWhileExecuting ==
  /\ status.isExecuting
  /\ lastError' = "already-executing"
  /\ UNCHANGED <<config, usePool, workers, pool, status, pc, tasks, taskBatches,
                 bstate, bworker, borrowedWorkers, results, ret, boutcome, launchOrder,
                 workerFailed, availAtSubmit, extHeld, mgrVars, poolVars, queueVars, workerVars, sessionVars, v2Vars>>

\* execute on a controller with neither pool nor workers
ExecuteNoWorkers ==
  /\ ~status.isExecuting
  /\ ~usePool /\ Len(workers) = 0
  /\ lastError' = "no-workers"
  /\ UNCHANGED <<config, usePool, workers, pool, status, pc, tasks, taskBatches,
                 bstate, bworker, borrowedWorkers, results, ret, boutcome, launchOrder,
                 workerFailed, availAtSubmit, extHeld, mgrVars, poolVars, queueVars, workerVars, sessionVars, v2Vars>>

\* BaseController.addWorker; the flat list is capped at MaxPoolSize entries
ControllerAddWorker(w) ==
  /\ KnownOrNext(IF usePool THEN pool.workers ELSE workers, w)
  /\ IF usePool
     THEN /\ pool' = addWorker(pool, w)
          /\ UNCHANGED workers
     ELSE /\ Len(workers) < MaxPoolSize
          /\ workers' = Append(workers, w)
          /\ UNCHANGED pool
  /\ lastError' = "none"
  /\ UNCHANGED <<config, usePool, status, pc, tasks, taskBatches, bstate, bworker,
                 borrowedWorkers, results, ret, boutcome, launchOrder, workerFailed,
                 availAtSubmit, extHeld, mgrVars, poolVars, queueVars, workerVars, sessionVars, v2Vars>>

\* another client of the same pool, which holds one worker at a time,
\* borrows a worker
ExtBorrow ==
  /\ usePool
  /\ extHeld = 0
  /\ pool' = borrowWorker(pool)
  /\ extHeld' = borrowWorkerRet(pool)
  /\ lastError' = "none"
  /\ UNCHANGED <<config, usePool, workers, status, pc, tasks, taskBatches, bstate,
                 bworker, borrowedWorkers, results, ret, boutcome, launchOrder,
                 workerFailed, availAtSubmit, mgrVars, poolVars, queueVars, workerVars, sessionVars, v2Vars>>

\* the other client returns a worker: the one it holds, or one the pool refuses
ExtReturn(w) ==
  /\ usePool
  /\ extHeld = w \/ ~returnWorkerRet(pool, w)
  /\ pool' = returnWorker(pool, w)
  /\ extHeld' = IF returnWorkerRet(pool, w) THEN 0 ELSE extHeld
  /\ lastError' = "none"
  /\ UNCHANGED <<config, usePool, workers, status, pc, tasks, taskBatches, bstate,
                 bworker, borrowedWorkers, results, ret, boutcome, launchOrder,
                 workerFailed, availAtSubmit, mgrVars, poolVars, queueVars, workerVars, sessionVars, v2Vars>>

(* ------------------- BaseWorker.fetch and fetchBatch -------------------- *)

\* bw is a record:
\*   delayMs   config.delayMs
\*   call      none, fetch or fetchBatch: the call in progress or last made
\*   tasks     ids of the tasks passed to the call
\*   i         1-based position of the loop of fetchBatch, 0 outside it
\*   pc        idle, executing (awaiting executeTask), sleeping (awaiting
\*             the delay between two tasks), returned or threw
\*   results   the local array of fetchBatch
\*   ret       what the call resolved with
\*   started   tasks in the order their executeTask was invoked
\*   running   tasks whose executeTask has not settled yet
\*   failed    tasks whose executeTask threw or rejected
NewWorker(delayMs) ==
  [delayMs |-> delayMs, call |-> "none", tasks |-> <<>>, i |-> 0, pc |-> "idle",
   results |-> <<>>, ret |-> <<>>, started |-> <<>>, running |-> {}, failed |-> {}]

IdleWorkerVars == bw = NewWorker(0)

\* a new call on the worker w
WorkerCall(w, call, ts) ==
  [NewWorker(w.delayMs) EXCEPT !.call = call, !.tasks = ts]

\* fetch(task) up to `await this.executeTask(task.payload)`
fetchStart(w, task) ==
  [w EXCEPT !.started = Append(@, task), !.running = @ \cup {task}]

\* variant: the catch block of fetch rethrows
fetchRethrows(task, ok) ==
  [threw |-> ~ok,
   value |-> [taskId |-> task, success |-> ok, error |-> IF ok THEN "none" ELSE "task"]]

\* what fetch(task) resolves with once executeTask settled: the try block
\* for a fulfilled operation, the catch block for a failed one
fetch(task, ok) ==
  [threw |-> FALSE,
   value |-> [taskId |-> task, success |-> ok, error |-> IF ok THEN "none" ELSE "task"]]

\* variant: the loop does not await fetch, so every remaining task starts
fetchBatchIterNoAwait(w, k) ==
  IF k > Len(w.tasks)
  THEN [w EXCEPT !.pc = "returned", !.ret = w.results, !.i = 0]
  ELSE [w EXCEPT !.i = k, !.pc = "executing",
                 !.started = @ \o SubSeq(w.tasks, Len(@) + 1, Len(w.tasks)),
                 !.running = @ \cup {w.tasks[j] : j \in k..Len(w.tasks)}]

\* fetchBatch from the loop test of iteration k to its next suspension:
\* `return results` after the last task, else the await of fetch(tasks[k])
fetchBatchIter(w, k) ==
  IF k > Len(w.tasks)
  THEN [w EXCEPT !.pc = "returned", !.ret = w.results, !.i = 0]
  ELSE fetchStart([w EXCEPT !.i = k, !.pc = "executing"], w.tasks[k])

\* fetchBatch after fetch(tasks[i]) settled: push the result, then sleep
\* if a task is left and delayMs is non-zero, else go on with the loop
fetchBatchAfter(w, r) ==
  IF r.threw THEN [w EXCEPT !.pc = "threw", !.i = 0]
  ELSE LET w1 == [w EXCEPT !.results = Append(@, r.value)]
       IN IF w.i < Len(w.tasks) /\ w.delayMs # 0
          THEN [w1 EXCEPT !.pc = "sleeping"]
          ELSE fetchBatchIter(w1, w.i + 1)

\* worker.fetchBatch(tasks), called when no call is in progress
WorkerFetchBatch(n) ==
  /\ bw.pc \in {"idle", "returned", "threw"}
  /\ bw' = fetchBatchIter(WorkerCall(bw, "fetchBatch", TaskList(n)), 1)

\* the operation of the current task of the batch fulfils or fails
WorkerTaskSettles(ok) ==
  /\ bw.call = "fetchBatch"
  /\ bw.pc = "executing"
  /\ LET task == bw.tasks[bw.i]
         w1 == [bw EXCEPT !.running = @ \ {task},
                          !.failed = IF ok THEN @ ELSE @ \cup {task}]
     IN bw' = fetchBatchAfter(w1, fetch(task, ok))

\* the delay between two tasks elapsed
WorkerWake ==
  /\ bw.pc = "sleeping"
  /\ bw' = fetchBatchIter(bw, bw.i + 1)

\* worker.fetch(task), called when no call is in progress
WorkerFetch(task) ==
  /\ bw.pc \in {"idle", "returned", "threw"}
  /\ bw' = fetchStart([WorkerCall(bw, "fetch", <<task>>) EXCEPT !.pc = "executing"], task)

\* the operation of a single fetch fulfils or fails
WorkerFetchSettles(ok) ==
  /\ bw.call = "fetch"
  /\ bw.pc = "executing"
  /\ LET task == bw.tasks[1]
         r == fetch(task, ok)
         w1 == [bw EXCEPT !.running = @ \ {task},
                          !.failed = IF ok THEN @ ELSE @ \cup {task}]
     IN bw' = IF r.threw THEN [w1 EXCEPT !.pc = "threw"]
              ELSE [w1 EXCEPT !.pc = "returned", !.ret = <<r.value>>]

(* ------------------- ScrapingSession (pool-based) ----------------------- *)

\* session is a record:
\*   resourceLimits  config.resourceLimits.maxConcurrentWorkers
\*   pools           the pools of its WorkerPoolManager, by the key under
\*                   which workerPools holds them ('district' stands for
\*                   the pool named 'district-pool', and so on)
\*   controllers     by name, the configuration the controller was built
\*                   with, or NoController
\*   pc              new, creating (between the two controllers),
\*                   initialized, or rejected
NoController ==
  [maxConcurrentWorkers |-> 0, maxTasksPerWorker |-> 0, workerLaunchDelayMs |-> 0,
   absent |-> TRUE]

\* new ScrapingSession(config)
NewSession(limit) ==
  [resourceLimits |-> limit,
   pools |-> [n \in PoolNames |-> NoPool],
   controllers |-> [n \in PoolNames |-> NoController],
   pc |-> "new"]

IdleSessionVars ==
  /\ session = NewSession(0)
  /\ sessBound = "none"

\* createPool's sum of getTotalCount() over the registered pools
SessionTotalWorkers(s) ==
  SumOver([n \in PoolNames |-> getTotalCount(s.pools[n])],
          {n \in PoolNames : s.pools[n] # NoPool})

\* workerPoolManager.createPool throws: duplicate name or no capacity left
SessionCreatePoolThrows(s, name) ==
  \/ s.pools[name] # NoPool
  \/ s.resourceLimits - SessionTotalWorkers(s) <= 0

\* the pool createPool returns
SessionCreatePool(s, name, maxWorkers) ==
  WorkerPoolNew(Min(maxWorkers, s.resourceLimits - SessionTotalWorkers(s)), <<>>)

\* initializeWorkers: Math.min(3, this.config.maxConcurrentWorkers || 5)
InitializeWorkersCount(cfg) ==
  Min(3, IF cfg.maxConcurrentWorkers # 0 THEN cfg.maxConcurrentWorkers ELSE 5)

\* the controller's constructor: initializeWorkers creates the workers and
\* addWorker hands each to the pool, which refuses those beyond its capacity
initializeWorkers(cfg, p) ==
  AddAll(p, [i \in 1..InitializeWorkersCount(cfg) |-> i])

\* createDistrictController and createRegistrationOfficeController, which
\* differ in the name and in the number of workers asked for
CreateController(s, name, requested) ==
  IF SessionCreatePoolThrows(s, name) THEN [s EXCEPT !.pc = "rejected"]
  ELSE LET p == SessionCreatePool(s, name, Min(requested, s.resourceLimits))
           cfg == [maxConcurrentWorkers |-> getTotalCount(p),
                   maxTasksPerWorker |-> 10,
                   workerLaunchDelayMs |-> 500]
       IN [s EXCEPT !.pools[name] = initializeWorkers(cfg, p),
                    !.controllers[name] = cfg]

createDistrictController(s) == CreateController(s, "district", 3)

createRegistrationOfficeController(s) == CreateController(s, "registration-office", 5)

\* initialize() up to the return of createDistrictController
SessionInitialize ==
  /\ session.pc = "new"
  /\ LET s1 == createDistrictController(session)
     IN session' = IF s1.pc = "rejected" THEN s1 ELSE [s1 EXCEPT !.pc = "creating"]
  /\ UNCHANGED sessBound

\* the rest of createControllers; initialize() settles
SessionCreateRegistrationOffice ==
  /\ session.pc = "creating"
  /\ LET s1 == createRegistrationOfficeController(session)
     IN session' = IF s1.pc = "rejected" THEN s1 ELSE [s1 EXCEPT !.pc = "initialized"]
  /\ UNCHANGED sessBound

\* getController(name) once initialize() has settled: from here on the
\* controller's state is config, pool and the other controller variables
SessionGetController(name) ==
  /\ session.pc \in {"initialized", "rejected"}
  /\ sessBound = "none"
  /\ session.controllers[name] # NoController
  /\ sessBound' = name
  /\ config' = [maxConcurrentWorkers |-> session.controllers[name].maxConcurrentWorkers,
                maxTasksPerWorker |-> session.controllers[name].maxTasksPerWorker,
                workerLaunchDelayMs |-> session.controllers[name].workerLaunchDelayMs]
  /\ usePool' = TRUE
  /\ pool' = session.pools[name]
  /\ UNCHANGED <<session, workers, status, pc, tasks, taskBatches, bstate, bworker,
                 borrowedWorkers, results, ret, lastError, boutcome, launchOrder,
                 workerFailed, availAtSubmit, extHeld>>

(* ------------------------- legacy WorkerPool ---------------------------- *)

NewLegacyPool(m) == [maxWorkers |-> m, workers |-> <<>>, busyWorkers |-> {}]

\* WorkerPool.addWorker of the legacy pool: the pool after the call
LegacyAddWorker(p, w) ==
  IF Len(p.workers) < p.maxWorkers
  THEN [p EXCEPT !.workers = Append(@, w)]
  ELSE p

\* this.workers.filter(worker => !this.busyWorkers.has(worker))
NotBusy(p) == SelectSeq(p.workers, LAMBDA w : w \notin p.busyWorkers)

\* what getWorker() returns, 0 for null
getWorkerRet(p) == IF Len(NotBusy(p)) = 0 THEN 0 ELSE NotBusy(p)[1]

\* the pool after getWorker()
getWorker(p) ==
  IF getWorkerRet(p) = 0 THEN p
  ELSE [p EXCEPT !.busyWorkers = @ \cup {getWorkerRet(p)}]

\* what getWorkers(count) returns
getWorkersRet(p, count) == Slice(NotBusy(p), count)

\* the pool after getWorkers(count)
getWorkers(p, count) ==
  LET ws == getWorkersRet(p, count) IN
  [p EXCEPT !.busyWorkers = @ \cup {ws[i] : i \in 1..Len(ws)}]

\* WorkerPool.returnWorker of the legacy pool: the pool after the call
LegacyReturnWorker(p, w) == [p EXCEPT !.busyWorkers = @ \ {w}]

RECURSIVE ReturnAll(_, _)
\* availableWorkers.forEach(worker => this.workerPool.returnWorker(worker))
ReturnAll(p, ws) ==
  IF Len(ws) = 0 THEN p
  ELSE ReturnAll(LegacyReturnWorker(p, Head(ws)), Tail(ws))

(* -------------------- RegistrationOfficeControllerV2 -------------------- *)

NewV2(conc, tpw) ==
  [config |-> [maxConcurrentWorkers |-> conc, maxTasksPerWorker |-> tpw],
   pc |-> "new", availableWorkers |-> <<>>, drawn |-> <<>>,
   slices |-> <<>>, sstate |-> <<>>, results |-> <<>>]

RECURSIVE V2InitializeFrom(_, _, _)
\* the loop of initialize(): each pass creates a worker and offers it to the pool
V2InitializeFrom(p, i, conc) ==
  IF i >= conc THEN p
  ELSE V2InitializeFrom(LegacyAddWorker(p, Len(p.workers) + 1), i + 1, conc)

RECURSIVE AddTasks(_, _)
\* for (const districtId of districtIds) this.taskQueue.addTask(...)
AddTasks(ts, n) == IF n = 0 THEN ts ELSE AddTasks(addTask(ts), n - 1)

\* tasks.slice(startIdx, endIdx) for the worker at position i (from 1)
WorkerTasks(batch, nw, i) ==
  LET tasksPerWorker == Ceil(Len(batch), nw)
      startIdx == (i - 1) * tasksPerWorker
      endIdx == Min(startIdx + tasksPerWorker, Len(batch))
  IN IF startIdx >= endIdx THEN <<>> ELSE SubSeq(batch, startIdx + 1, endIdx)

\* processTasks up to its await: every worker with a non-empty slice has
\* its fetchBatch call started
processTasksStart(c, batch, ws) ==
  [c EXCEPT !.pc = "processing",
            !.availableWorkers = ws,
            !.drawn = batch,
            !.slices = [i \in 1..Len(ws) |-> WorkerTasks(batch, Len(ws), i)],
            !.sstate = [i \in 1..Len(ws) |->
                          IF Len(WorkerTasks(batch, Len(ws), i)) = 0
                          THEN "skipped" ELSE "fetching"],
            !.results = <<>>]

\* the call has left the loop
V2Exit(c) ==
  [c EXCEPT !.pc = "returned", !.availableWorkers = <<>>, !.drawn = <<>>,
            !.slices = <<>>, !.sstate = <<>>, !.results = <<>>]

\* the while loop from its test to the next await or to the return;
\* st is [lp, q, c]: the pool, the queue's batch and the controller
V2LoopHead(st) ==
  LET conc == st.c.config.maxConcurrentWorkers
      tasksPerWorker == st.c.config.maxTasksPerWorker
      availableWorkers == getWorkersRet(st.lp, conc)
      taken == getWorkers(st.lp, conc)
      batchSize == tasksPerWorker * Len(availableWorkers)
      batch == getNextBatchRet(st.q, batchSize)
  IN
  IF ~hasPendingTasks(st.q)
  THEN [st EXCEPT !.c = V2Exit(@)]
  ELSE IF Len(availableWorkers) = 0
  THEN [st EXCEPT !.c = [V2Exit(@) EXCEPT !.pc = "waiting"]]
  ELSE IF Len(batch) = 0
  THEN [lp |-> ReturnAll(taken, availableWorkers),
        q |-> getNextBatch(st.q, batchSize),
        c |-> V2Exit(st.c)]
  ELSE [lp |-> taken,
        q |-> getNextBatch(st.q, batchSize),
        c |-> processTasksStart(st.c, batch, availableWorkers)]

RECURSIVE UpdateFromResults(_, _)
\* taskResults.forEach(result => updateTaskStatus(result.taskId, ...))
UpdateFromResults(ts, rs) ==
  IF Len(rs) = 0 THEN ts
  ELSE UpdateFromResults(
         updateTaskStatus(ts, Head(rs).taskId,
                          IF Head(rs).success THEN "completed" ELSE "failed",
                          Head(rs).error # "none"),
         Tail(rs))

\* variant: the catch block records the failures but leaves the queue alone
MarkAllFailedNone(ts, workerTasks) == ts

RECURSIVE MarkAllFailed(_, _)
\* workerTasks.forEach(task => updateTaskStatus(task.id, 'failed', message))
MarkAllFailed(ts, workerTasks) ==
  IF Len(workerTasks) = 0 THEN ts
  ELSE MarkAllFailed(updateTaskStatus(ts, Head(workerTasks), "failed", TRUE),
                     Tail(workerTasks))

V2State == [lp |-> lp, q |-> tqTasks, c |-> v2]

SetV2State(st) ==
  /\ lp' = st.lp
  /\ tqTasks' = st.q
  /\ v2' = st.c

\* the queue's bookkeeping of its last call, which the controller leaves alone
tqVarsRest == <<tqCall, tqDraws>>

\* controller.initialize(workerConfig)
V2InitializeCall ==
  /\ v2.pc = "new"
  /\ lp' = V2InitializeFrom(lp, 0, v2.config.maxConcurrentWorkers)
  /\ v2' = [v2 EXCEPT !.pc = "idle"]
  /\ UNCHANGED <<otherHeld, queueVars>>

V2Initialize == V2InitializeCall /\ UNCHANGED <<qs, version>>

\* fetchRegistrationOffices(districtIds) with n districts, up to its first
\* await or, when nothing is pending, to its return
fetchRegistrationOffices(n) ==
  /\ v2.pc \in {"idle", "returned"}
  /\ Len(tqTasks) + n <= MaxV2Tasks
  /\ SetV2State(V2LoopHead([V2State EXCEPT !.q = AddTasks(@, n)]))
  /\ UNCHANGED <<otherHeld, tqVarsRest>>

V2Fetch(n) == fetchRegistrationOffices(n) /\ UNCHANGED <<qs, version>>

\* the one-second sleep of the no-worker branch ends: the loop tests again
V2Wake ==
  /\ v2.pc = "waiting"
  /\ SetV2State(V2LoopHead(V2State))
  /\ UNCHANGED <<otherHeld, qs, version, tqVarsRest>>

\* the fetchBatch call of worker i resolves with one result per task,
\* those of failset unsuccessful
V2WorkerResolve(i, failset) ==
  /\ v2.pc = "processing"
  /\ i \in 1..Len(v2.sstate)
  /\ v2.sstate[i] = "fetching"
  /\ failset \subseteq {v2.slices[i][j] : j \in 1..Len(v2.slices[i])}
  /\ LET taskResults == WorkerResults(v2.slices[i], failset) IN
       /\ tqTasks' = UpdateFromResults(tqTasks, taskResults)
       /\ v2' = [v2 EXCEPT !.sstate[i] = "done", !.results = @ \o taskResults]
  /\ UNCHANGED <<lp, otherHeld, qs, version, tqVarsRest>>

\* the fetchBatch call of worker i throws or rejects
V2WorkerReject(i) ==
  /\ v2.pc = "processing"
  /\ i \in 1..Len(v2.sstate)
  /\ v2.sstate[i] = "fetching"
  /\ tqTasks' = MarkAllFailed(tqTasks, v2.slices[i])
  /\ v2' = [v2 EXCEPT !.sstate[i] = "done",
                      !.results = @ \o FailureResults(v2.slices[i])]
  /\ UNCHANGED <<lp, otherHeld, qs, version, tqVarsRest>>

\* Promise.all resolves: processTasks returns, the workers go back to the
\* pool and the loop tests again
V2ProcessDone ==
  /\ v2.pc = "processing"
  /\ \A i \in 1..Len(v2.sstate) : v2.sstate[i] # "fetching"
  /\ SetV2State(V2LoopHead([V2State EXCEPT
                              !.lp = ReturnAll(@, v2.availableWorkers)]))
  /\ UNCHANGED <<otherHeld, qs, version, tqVarsRest>>

\* another client of the pool takes a worker with getWorker()
OtherGet ==
  /\ getWorkerRet(lp) # 0
  /\ lp' = getWorker(lp)
  /\ otherHeld' = otherHeld \cup {getWorkerRet(lp)}
  /\ UNCHANGED <<v2, qs, version, queueVars>>

\* the other client gives a worker back
OtherReturn(w) ==
  /\ w \in otherHeld
  /\ lp' = LegacyReturnWorker(lp, w)
  /\ otherHeld' = otherHeld \ {w}
  /\ UNCHANGED <<v2, qs, version, queueVars>>

(* ------------------- ScrapingSession (queue-based) ---------------------- *)

NoCounts == [pending |-> 0, inProgress |-> 0, completed |-> 0, failed |-> 0, total |-> 0]

IdleTick == [pc |-> "idle", counts |-> NoCounts, finalStatus |-> "none"]

\* the session as constructed by createScrapingSession, before initialize()
NewQSession ==
  [pc |-> "constructed", monitorInterval |-> FALSE, tick |-> IdleTick,
   startPc |-> "none", startN |-> 0, stopPc |-> "none"]

\* the row createScrapingSession inserts
NewVersion == [status |-> "started", items_scraped |-> 0, error_count |-> 0]

IdleV2Vars ==
  /\ lp = NewLegacyPool(0)
  /\ v2 = NewV2(0, 0)
  /\ otherHeld = {}
  /\ qs = NewQSession
  /\ version = NewVersion

\* counts.failed > 0 ? 'completed_with_errors' : 'completed'
FinalStatusOf(counts) ==
  IF counts.failed > 0 THEN "completed_with_errors" ELSE "completed"

\* initialize(): the controller is built and initialized, then the
\* monitor's interval is set
QsInitialize ==
  /\ qs.pc = "constructed"
  /\ V2InitializeCall
  /\ qs' = [qs EXCEPT !.pc = "initialized", !.monitorInterval = TRUE]
  /\ UNCHANGED version

\* start(districtIds) with n districts, up to its await of the status update
QsStart(n) ==
  /\ qs.pc = "initialized"
  /\ qs.startPc = "none"
  /\ qs' = [qs EXCEPT !.startPc = "updating", !.startN = n]
  /\ UNCHANGED <<lp, v2, otherHeld, version, queueVars>>

\* the update of start() is applied and start() goes on to call the
\* controller's fetchRegistrationOffices
QsStartUpdated ==
  /\ qs.startPc = "updating"
  /\ version' = [version EXCEPT !.status = "in_progress"]
  /\ qs' = [qs EXCEPT !.startPc = "fetching"]
  /\ fetchRegistrationOffices(qs.startN)

\* a tick of the interval: the counts are read and their update is sent
QsTick ==
  /\ qs.monitorInterval
  /\ qs.tick.pc = "idle"
  /\ qs' = [qs EXCEPT !.tick = [pc |-> "counts", counts |-> getTaskCounts(tqTasks),
                                finalStatus |-> "none"]]
  /\ UNCHANGED <<lp, v2, otherHeld, version, queueVars>>

\* the counts update of the tick is applied; the tick then tests for the
\* end of the run and, at the end, clears the interval and sends the final status
QsTickCountsUpdated ==
  /\ qs.tick.pc = "counts"
  /\ version' = [version EXCEPT !.items_scraped = qs.tick.counts.completed,
                                !.error_count = qs.tick.counts.failed]
  /\ LET counts == qs.tick.counts
         allComplete == isComplete(tqTasks)
     IN IF allComplete /\ counts.pending = 0 /\ counts.inProgress = 0
        THEN qs' = [qs EXCEPT !.monitorInterval = FALSE,
                              !.tick = [pc |-> "final", counts |-> counts,
                                        finalStatus |-> FinalStatusOf(counts)]]
        ELSE qs' = [qs EXCEPT !.tick = IdleTick]
  /\ UNCHANGED <<lp, v2, otherHeld, queueVars>>

\* the final status update of the tick is applied
QsTickFinalUpdated ==
  /\ qs.tick.pc = "final"
  /\ version' = [version EXCEPT !.status = qs.tick.finalStatus]
  /\ qs' = [qs EXCEPT !.tick = IdleTick]
  /\ UNCHANGED <<lp, v2, otherHeld, queueVars>>

\* stop() up to its await: the interval is cleared and the update is sent
QsStop ==
  /\ qs.pc = "initialized"
  /\ qs.stopPc = "none"
  /\ qs' = [qs EXCEPT !.monitorInterval = FALSE, !.stopPc = "updating"]
  /\ UNCHANGED <<lp, v2, otherHeld, version, queueVars>>

\* the update of stop() is applied and stop() resolves
QsStopUpdated ==
  /\ qs.stopPc = "updating"
  /\ version' = [version EXCEPT !.status = "stopped"]
  /\ qs' = [qs EXCEPT !.stopPc = "resolved"]
  /\ UNCHANGED <<lp, v2, otherHeld, queueVars>>

(* --------------------------- specifications ---------------------------- *)

IdleMgrVars ==
  /\ resourceLimits = 1
  /\ pools = [n \in PoolNames |-> NoPool]
  /\ mgrResult = "none"
  /\ mgrCall = NoMgrCall

IdleCtlVars ==
  /\ config = [maxConcurrentWorkers |-> 1, maxTasksPerWorker |-> 1, workerLaunchDelayMs |-> 0]
  /\ usePool = FALSE
  /\ workers = <<>>
  /\ pool = NewPoolObject(0)
  /\ status = InitialStatus
  /\ pc = "idle"
  /\ tasks = <<>>
  /\ taskBatches = <<>>
  /\ bstate = <<>>
  /\ bworker = <<>>
  /\ borrowedWorkers = <<>>
  /\ results = <<>>
  /\ ret = <<>>
  /\ lastError = "none"
  /\ boutcome = <<>>
  /\ launchOrder = <<>>
  /\ workerFailed = {}
  /\ availAtSubmit = 0
  /\ extHeld = 0

\* a controller as constructed, with an empty pool or an empty worker list;
\* the workers added to the shared pool are distinct objects
Init ==
  /\ IdleMgrVars
  /\ IdlePoolVars
  /\ IdleQueueVars
  /\ IdleWorkerVars
  /\ IdleSessionVars /\ IdleV2Vars
  /\ config \in [maxConcurrentWorkers : 0..MaxConc,
                 maxTasksPerWorker : 1..MaxPerWorker,
                 workerLaunchDelayMs : {0, 500}]
  /\ usePool \in BOOLEAN
  /\ workers = <<>>
  /\ pool = NewPoolObject(IF usePool THEN MaxPoolSize ELSE 0)
  /\ status = InitialStatus
  /\ pc = "idle"
  /\ tasks = <<>>
  /\ taskBatches = <<>>
  /\ bstate = <<>>
  /\ bworker = <<>>
  /\ borrowedWorkers = <<>>
  /\ results = <<>>
  /\ ret = <<>>
  /\ lastError = "none"
  /\ boutcome = <<>>
  /\ launchOrder = <<>>
  /\ workerFailed = {}
  /\ availAtSubmit = 0
  /\ extHeld = 0

Next ==
  \/ \E n \in 0..MaxTasks, syncThrow \in SUBSET (1..MaxConc) :
       /\ \A i \in syncThrow : i <= n /\ ~LaunchSleeps(i)
       /\ Execute(n, syncThrow)
  \/ \E i \in 1..Len(bstate), throws \in BOOLEAN : BatchWake(i, throws)
  \/ \E i \in 1..Len(bstate) : \E failset \in SUBSET BatchTasks(i) : BatchResolve(i, failset)
  \/ \E i \in 1..Len(bstate) : BatchReject(i)
  \/ ExecuteContinue
  \/ ExecuteWhileExecuting
  \/ ExecuteNoWorkers
  \/ \E w \in WorkerIds :
       /\ usePool => ~Includes(pool.workers, w)
       /\ ControllerAddWorker(w)
  \/ ExtBorrow
  \/ \E w \in WorkerIds : ExtReturn(w)

Spec == Init /\ [][Next]_vars

\* the manager on its own
InitMgr ==
  /\ InitMgrVars /\ IdleCtlVars /\ IdlePoolVars /\ IdleQueueVars
  /\ IdleWorkerVars /\ IdleSessionVars /\ IdleV2Vars

NextMgr ==
  \/ \E name \in PoolNames, m \in 1..MaxPoolSize, ws \in SeqsUpTo(WorkerIds, MaxPoolSize) :
       KnownOrNextAll(ws) /\ createPool(name, m, ws) /\ UNCHANGED <<ctlVars, poolVars, queueVars, workerVars, sessionVars, v2Vars>>
  \/ \E name \in PoolNames : removePool(name) /\ UNCHANGED <<ctlVars, poolVars, queueVars, workerVars, sessionVars, v2Vars>>
  \/ \E name \in PoolNames, w \in WorkerIds :
       KnownOrNext(pools[name].workers, w) /\ PoolAddWorker(name, w) /\ UNCHANGED <<ctlVars, poolVars, queueVars, workerVars, sessionVars, v2Vars>>
  \/ \E name \in PoolNames : PoolBorrowWorker(name) /\ UNCHANGED <<ctlVars, poolVars, queueVars, workerVars, sessionVars, v2Vars>>
  \/ \E name \in PoolNames, w \in WorkerIds : PoolReturnWorker(name, w) /\ UNCHANGED <<ctlVars, poolVars, queueVars, workerVars, sessionVars, v2Vars>>

SpecMgr == InitMgr /\ [][NextMgr]_vars

\* distributeTasks on its own: the inputs are drawn in the initial state
InitDist ==
  /\ IdleMgrVars
  /\ IdlePoolVars
  /\ IdleQueueVars
  /\ IdleWorkerVars
  /\ IdleSessionVars /\ IdleV2Vars
  /\ config \in [maxConcurrentWorkers : 0..MaxConc,
                 maxTasksPerWorker : 1..MaxPerWorker,
                 workerLaunchDelayMs : {0}]
  /\ usePool \in BOOLEAN
  /\ \E total \in 0..NumWorkerIds : \E a \in 0..total :
       IF usePool
       THEN /\ workers = <<>>
            /\ pool = [maxWorkers |-> NumWorkerIds,
                       workers |-> [i \in 1..total |-> i],
                       availableWorkers |-> [i \in 1..a |-> i]]
       ELSE /\ a = total
            /\ workers = [i \in 1..total |-> i]
            /\ pool = NewPoolObject(0)
  /\ \E n \in 0..MaxDistTasks : tasks = TaskList(n)
  /\ status = InitialStatus
  /\ pc = "idle"
  /\ taskBatches = <<>>
  /\ bstate = <<>>
  /\ bworker = <<>>
  /\ borrowedWorkers = <<>>
  /\ results = <<>>
  /\ ret = <<>>
  /\ lastError = "none"
  /\ boutcome = <<>>
  /\ launchOrder = <<>>
  /\ workerFailed = {}
  /\ availAtSubmit = 0
  /\ extHeld = 0

\* one call of distributeTasks(tasks)
Distribute ==
  /\ pc = "idle"
  /\ LET avail == AvailableWorkerCount(usePool, pool, workers)
         numWorkers == NumWorkers(config, avail, Len(tasks))
     IN /\ availAtSubmit' = avail
        /\ IF distributeTasksThrows(tasks, numWorkers)
           THEN /\ pc' = "threw"
                /\ UNCHANGED taskBatches
           ELSE /\ pc' = "distributed"
                /\ taskBatches' = distributeTasks(tasks, numWorkers)
  /\ UNCHANGED <<config, usePool, workers, pool, status, tasks, bstate, bworker,
                 borrowedWorkers, results, ret, lastError, boutcome, launchOrder, workerFailed,
                 extHeld, mgrVars, poolVars, queueVars, workerVars, sessionVars, v2Vars>>

NextDist == Distribute

SpecDist == InitDist /\ [][NextDist]_vars

\* one WorkerPool on its own, as constructed without initial workers
InitPool ==
  /\ IdleMgrVars
  /\ IdleCtlVars
  /\ IdleQueueVars
  /\ IdleWorkerVars
  /\ IdleSessionVars /\ IdleV2Vars
  /\ \E m \in 1..MaxPoolSize : wp = WorkerPoolNew(m, <<>>)
  /\ wpHeld = [w \in WorkerIds |-> 0]
  /\ wpCall = NoCall

NextPool ==
  \/ \E w \in WorkerIds : WpAddWorker(w) /\ UNCHANGED <<mgrVars, ctlVars, queueVars, workerVars, sessionVars, v2Vars>>
  \/ WpBorrowWorker /\ UNCHANGED <<mgrVars, ctlVars, queueVars, workerVars, sessionVars, v2Vars>>
  \/ \E w \in WorkerIds : WpReturnWorker(w) /\ UNCHANGED <<mgrVars, ctlVars, queueVars, workerVars, sessionVars, v2Vars>>

SpecPool == InitPool /\ [][NextPool]_vars

\* one TaskQueue on its own, as constructed
InitQueue ==
  /\ IdleMgrVars /\ IdleCtlVars /\ IdlePoolVars
  /\ IdleWorkerVars /\ IdleSessionVars /\ IdleV2Vars
  /\ IdleQueueVars

NextQueue ==
  \/ QueueAddTask /\ UNCHANGED <<mgrVars, ctlVars, poolVars, workerVars, sessionVars, v2Vars>>
  \/ \E batchSize \in 0..MaxBatchSize :
       QueueGetNextBatch(batchSize) /\ UNCHANGED <<mgrVars, ctlVars, poolVars, workerVars, sessionVars, v2Vars>>
  \/ \E taskId \in 1..(MaxQueueTasks + 1), st \in {"completed", "failed"}, withError \in BOOLEAN :
       QueueUpdateTaskStatus(taskId, st, withError) /\ UNCHANGED <<mgrVars, ctlVars, poolVars, workerVars, sessionVars, v2Vars>>

SpecQueue == InitQueue /\ [][NextQueue]_vars

\* a controller that is the only user of its pool: workers are added between
\* calls, the same worker possibly more than once, and nobody else borrows
\* or returns
InitExclusive == Init /\ usePool

NextExclusive ==
  \/ \E n \in 0..MaxTasks, syncThrow \in SUBSET (1..MaxConc) :
       /\ \A i \in syncThrow : i <= n /\ ~LaunchSleeps(i)
       /\ Execute(n, syncThrow)
  \/ \E i \in 1..Len(bstate), throws \in BOOLEAN : BatchWake(i, throws)
  \/ \E i \in 1..Len(bstate) : \E failset \in SUBSET BatchTasks(i) : BatchResolve(i, failset)
  \/ \E i \in 1..Len(bstate) : BatchReject(i)
  \/ ExecuteContinue
  \/ \E w \in WorkerIds : pc # "running" /\ ControllerAddWorker(w)

SpecExclusive == InitExclusive /\ [][NextExclusive]_vars

\* one worker built with the default delay or with none; its calls are
\* made one after the other
InitWorker ==
  /\ IdleMgrVars
  /\ IdleCtlVars
  /\ IdlePoolVars
  /\ IdleQueueVars
  /\ IdleSessionVars /\ IdleV2Vars
  /\ \E d \in {0, 1000} : bw = NewWorker(d)

NextWorker ==
  \/ \E n \in 0..MaxWorkerBatch : WorkerFetchBatch(n) /\ UNCHANGED <<mgrVars, ctlVars, poolVars, queueVars, sessionVars, v2Vars>>
  \/ \E ok \in BOOLEAN : WorkerTaskSettles(ok) /\ UNCHANGED <<mgrVars, ctlVars, poolVars, queueVars, sessionVars, v2Vars>>
  \/ WorkerWake /\ UNCHANGED <<mgrVars, ctlVars, poolVars, queueVars, sessionVars, v2Vars>>
  \/ \E task \in 1..MaxWorkerBatch : WorkerFetch(task) /\ UNCHANGED <<mgrVars, ctlVars, poolVars, queueVars, sessionVars, v2Vars>>
  \/ \E ok \in BOOLEAN : WorkerFetchSettles(ok) /\ UNCHANGED <<mgrVars, ctlVars, poolVars, queueVars, sessionVars, v2Vars>>

SpecWorker == InitWorker /\ [][NextWorker]_vars

\* a fresh session for each limit; after initialize() one of its
\* controllers is taken with getController and used, while a client of
\* getWorkerPool borrows from the same pool. No batch step of execute is
\* listed: none is ever enabled here.
InitSession ==
  /\ IdleMgrVars
  /\ IdleCtlVars
  /\ IdlePoolVars
  /\ IdleQueueVars
  /\ IdleWorkerVars
  /\ IdleV2Vars
  /\ \E limit \in 1..MaxSessionLimit : session = NewSession(limit)
  /\ sessBound = "none"

NextSession ==
  \/ SessionInitialize /\ UNCHANGED <<mgrVars, ctlVars, poolVars, queueVars, workerVars, v2Vars>>
  \/ SessionCreateRegistrationOffice /\ UNCHANGED <<mgrVars, ctlVars, poolVars, queueVars, workerVars, v2Vars>>
  \/ \E name \in PoolNames : SessionGetController(name) /\ UNCHANGED <<mgrVars, poolVars, queueVars, workerVars, v2Vars>>
  \/ \E n \in 0..MaxTasks : sessBound # "none" /\ Execute(n, {})
  \/ sessBound # "none" /\ ExecuteContinue
  \/ sessBound # "none" /\ ExecuteWhileExecuting
  \/ sessBound # "none" /\ ExtBorrow
  \/ \E w \in 1..3 : sessBound # "none" /\ ExtReturn(w)

SpecSession == InitSession /\ [][NextSession]_vars

\* a V2 controller on a legacy pool it shares with one other client; the
\* pool's size and the controller's configuration are chosen freely
InitV2 ==
  /\ IdleMgrVars
  /\ IdleCtlVars
  /\ IdlePoolVars
  /\ IdleQueueVars
  /\ IdleWorkerVars
  /\ IdleSessionVars
  /\ \E m \in 0..MaxV2Workers : lp = NewLegacyPool(m)
  /\ \E conc \in 1..MaxV2Workers, tpw \in 1..MaxV2PerWorker : v2 = NewV2(conc, tpw)
  /\ otherHeld = {}
  /\ qs = NewQSession
  /\ version = NewVersion

V2OtherVars == <<mgrVars, ctlVars, poolVars, workerVars, sessionVars>>

V2Settle ==
  \/ \E i \in 1..MaxV2Workers, failset \in SUBSET (1..MaxV2Tasks) :
       V2WorkerResolve(i, failset) /\ UNCHANGED V2OtherVars
  \/ \E i \in 1..MaxV2Workers : V2WorkerReject(i) /\ UNCHANGED V2OtherVars

V2Return == \E w \in 1..MaxV2Workers : OtherReturn(w) /\ UNCHANGED V2OtherVars

NextV2 ==
  \/ V2Initialize /\ UNCHANGED V2OtherVars
  \/ \E n \in 0..MaxV2Tasks : V2Fetch(n) /\ UNCHANGED V2OtherVars
  \/ V2Wake /\ UNCHANGED V2OtherVars
  \/ V2Settle
  \/ V2ProcessDone /\ UNCHANGED V2OtherVars
  \/ OtherGet /\ UNCHANGED V2OtherVars
  \/ V2Return

SpecV2 == InitV2 /\ [][NextV2]_vars

\* the timers and promises of the event loop are served: a sleep that has
\* ended wakes the loop, a fetchBatch call settles, a settled round goes
\* on, and the other client gives back what it holds
SpecV2Live ==
  /\ SpecV2
  /\ WF_vars(V2Wake /\ UNCHANGED V2OtherVars)
  /\ WF_vars(V2Settle)
  /\ WF_vars(V2ProcessDone /\ UNCHANGED V2OtherVars)
  /\ WF_vars(V2Return)

\* a session on its own pool, as createScrapingSession builds it: the
\* pool's size and the controller's maxConcurrentWorkers are both
\* maxWorkers. The pool has no other client, so the no-worker sleep of
\* the loop is never entered and its wake-up is not listed.
InitQSession ==
  /\ IdleMgrVars
  /\ IdleCtlVars
  /\ IdlePoolVars
  /\ IdleQueueVars
  /\ IdleWorkerVars
  /\ IdleSessionVars
  /\ \E maxWorkers \in 1..MaxV2Workers, tasksPerWorker \in 1..MaxV2PerWorker :
       /\ lp = NewLegacyPool(maxWorkers)
       /\ v2 = NewV2(maxWorkers, tasksPerWorker)
  /\ otherHeld = {}
  /\ qs = NewQSession
  /\ version = NewVersion

NextQSession ==
  \/ QsInitialize /\ UNCHANGED V2OtherVars
  \/ \E n \in 0..MaxV2Tasks : QsStart(n) /\ UNCHANGED V2OtherVars
  \/ QsStartUpdated /\ UNCHANGED V2OtherVars
  \/ QsTick /\ UNCHANGED V2OtherVars
  \/ QsTickCountsUpdated /\ UNCHANGED V2OtherVars
  \/ QsTickFinalUpdated /\ UNCHANGED V2OtherVars
  \/ QsStop /\ UNCHANGED V2OtherVars
  \/ QsStopUpdated /\ UNCHANGED V2OtherVars
  \/ \E i \in 1..MaxV2Workers, failset \in SUBSET (1..MaxV2Tasks) :
       V2WorkerResolve(i, failset) /\ UNCHANGED V2OtherVars
  \/ \E i \in 1..MaxV2Workers : V2WorkerReject(i) /\ UNCHANGED V2OtherVars
  \/ V2ProcessDone /\ UNCHANGED V2OtherVars

SpecQSession == InitQSession /\ [][NextQSession]_vars

(* ------------------------------ properties ----------------------------- *)

\* batches of the running call that hold a worker
ActiveBatches == {i \in 1..Len(bstate) : bstate[i] \in {"sleeping", "fetching"}}

LaunchedBatches == {i \in 1..Len(bstate) : bstate[i] # "skipped"}

ResultsFor(id) == {j \in 1..Len(ret) : ret[j].taskId = id}

\* C1: a resolved execute returns exactly one result per submitted task:
\* as many results as tasks, and for every submitted id exactly one result.
C1_OneResultPerTask ==
  pc = "resolved" =>
    /\ Len(ret) = Len(tasks)
    /\ \A p \in 1..Len(tasks) : Cardinality(ResultsFor(tasks[p])) = 1

\* pool mode, three tasks, one batch threw and the other reported a failure
C1_Witness ==
  /\ pc = "resolved" /\ usePool /\ Len(tasks) = 3
  /\ \E i \in 1..Len(boutcome) : boutcome[i] = "threw"
  /\ workerFailed # {}

\* C2: the effective maxWorkers of the registered pools sum to at most the
\* manager's maxConcurrentWorkers.
C2_MaxWorkersWithinLimit ==
  SumOver([n \in PoolNames |-> pools[n].maxWorkers], Registered) <= resourceLimits

\* C3: the workers held by the registered pools (getStats().totalWorkers)
\* number at most resourceLimits.maxConcurrentWorkers.
C3_TotalWorkersWithinLimit == getStats.totalWorkers <= resourceLimits

\* outstanding borrows: by the batches of the controller and by other clients
BorrowedCount == Cardinality(ActiveBatches) + (IF extHeld # 0 THEN 1 ELSE 0)

\* C4: for the controller's pool borrowed + available = total, and no worker
\* is in the available list while a batch is executing on it.
C4_PoolAccounting ==
  usePool =>
    /\ BorrowedCount + getAvailableCount(pool) = getTotalCount(pool)
    /\ \A i \in 1..Len(bstate) :
         bstate[i] = "fetching" => ~Includes(pool.availableWorkers, bworker[i])

\* C5: distributeTasks puts the task at 0-based index i into batch i mod k,
\* every task into exactly one batch, and keeps submission order in a batch.
C5_RoundRobin ==
  pc = "distributed" =>
    LET k == Len(taskBatches) IN
    /\ \A p \in 1..Len(tasks) :
         LET b == ((p - 1) % k) + 1
             j == ((p - 1) \div k) + 1
         IN /\ j <= Len(taskBatches[b])
            /\ taskBatches[b][j] = tasks[p]
    /\ \A b \in 1..k :
         Len(taskBatches[b]) = Cardinality({p \in 1..Len(tasks) : (p - 1) % k = b - 1})

\* five tasks over two workers: indices {0,2,4} and {1,3}
C5_Witness ==
  /\ pc = "distributed"
  /\ Len(tasks) = 5
  /\ taskBatches = << <<1, 3, 5>>, <<2, 4>> >>

\* C6: the number of batches one execute activates is
\* min(maxConcurrentWorkers, workers available at submission, ceil(n / maxTasksPerWorker)).
C6_ActivatedCount ==
  pc \in {"running", "resolved", "threw"} =>
    LET c == Ceil(Len(tasks), config.maxTasksPerWorker)
        m == IF config.maxConcurrentWorkers <= availAtSubmit
             THEN config.maxConcurrentWorkers ELSE availAtSubmit
    IN Cardinality(LaunchedBatches) = (IF m <= c THEN m ELSE c)

\* the pool's available count is the binding term
C6_Witness ==
  /\ pc = "running" /\ usePool
  /\ availAtSubmit = 1
  /\ getTotalCount(pool) > 1
  /\ config.maxConcurrentWorkers > 1
  /\ Ceil(Len(tasks), config.maxTasksPerWorker) > 1
  /\ Cardinality(LaunchedBatches) = 1

\* C7: while a call is running no other call is accepted, and the call that
\* is rejected as already executing changes neither status, pool nor the
\* running call's state.
C7_SecondCallRejected ==
  [][status.isExecuting =>
       /\ tasks' = tasks
       /\ (lastError' # "none" =>
             /\ lastError' = "already-executing"
             /\ UNCHANGED <<status, pool, pc, tasks, taskBatches, bstate, bworker,
                            borrowedWorkers, results, ret>>)]_vars

\* a second call was rejected between two batch completions of the first
C7_Witness ==
  /\ pc = "running" /\ lastError = "already-executing"
  /\ Len(tasks) = 3
  /\ \E i, j \in 1..Len(bstate) : bstate[i] = "settled" /\ bstate[j] = "fetching"

\* C8: after the reset of an accepted call,
\* pendingTasks + completedTasks + failedTasks = number of submitted tasks.
C8_StatusSum ==
  pc # "idle" =>
    getStatus.pendingTasks + getStatus.completedTasks + getStatus.failedTasks = Len(tasks)

\* between two batch completions: one batch counted, one still fetching
C8_Witness ==
  /\ pc = "running"
  /\ status.completedTasks > 0 /\ status.failedTasks > 0 /\ status.pendingTasks > 0
  /\ \E i \in 1..Len(bstate) : bstate[i] = "fetching"

\* C9: isExecuting is true exactly while an accepted execute has not settled;
\* it is false again after a resolve and after an internal exception.
C9_IsExecuting == status.isExecuting <=> pc = "running"

\* execute ended by the exception of distributeTasks
C9_Witness == pc = "threw" /\ Len(tasks) > 0 /\ ~status.isExecuting

\* C10: every task of a batch whose fetchBatch threw is in the final results
\* exactly once, as a failure carrying the batch error; the other batches
\* keep the outcomes their workers reported; completed + failed = submitted.
C10_BatchFault ==
  pc = "resolved" =>
    /\ \A i \in 1..Len(taskBatches) :
         /\ boutcome[i] # "none"
         /\ \A id \in BatchTasks(i) :
              /\ Cardinality(ResultsFor(id)) = 1
              /\ \A j \in ResultsFor(id) :
                   IF boutcome[i] = "threw"
                   THEN ~ret[j].success /\ ret[j].error = "batch"
                   ELSE /\ ret[j].success = (id \notin workerFailed)
                        /\ ret[j].error # "batch"
    /\ status.completedTasks + status.failedTasks = Len(tasks)

\* one batch threw while another one returned successes
C10_Witness ==
  /\ pc = "resolved"
  /\ \E i, j \in 1..Len(boutcome) :
       /\ boutcome[i] = "threw" /\ Len(taskBatches[i]) = 2
       /\ boutcome[j] = "returned"
       /\ \E r \in 1..Len(ret) : ret[r].success /\ ret[r].taskId \in BatchTasks(j)

\* C11: a batch that ends hands its worker back to the pool, once, whatever
\* its outcome; when execute settles the pool has as many available workers
\* as just before the call.
C11_WorkersReturned ==
  [][/\ \A i \in 1..Len(bstate) :
          (pc = "running" /\ pc' = "running" /\ i \in ActiveBatches /\ bstate'[i] = "settled")
            => pool'.availableWorkers = Append(pool.availableWorkers, bworker[i])
     /\ (pc = "running" /\ pc' = "resolved") => getAvailableCount(pool') = availAtSubmit
     /\ (pc # "threw" /\ pc' = "threw") => getAvailableCount(pool') = availAtSubmit'
    ]_vars

\* s has no element twice
NoDuplicates(s) == \A i, j \in 1..Len(s) : s[i] = s[j] => i = j

\* C12: returnWorker(w) returns true and appends w to the available list
\* exactly when w belongs to the pool and is borrowed; otherwise it returns
\* false and leaves the pool as it was; a second return of the worker just
\* returned is refused.
C12_ReturnWorker ==
  [][wpCall'.op = "returnWorker" =>
       LET w == wpCall'.worker IN
       /\ wpCall'.ok <=> (Includes(wp.workers, w) /\ wpHeld[w] > 0)
       /\ wpCall'.ok => wp' = [wp EXCEPT !.availableWorkers = Append(@, w)]
       /\ ~wpCall'.ok => wp' = wp
       /\ (wpCall.op = "returnWorker" /\ wpCall.ok /\ wpCall.worker = w)
            => ~wpCall'.ok
    ]_vars

\* C13: no worker is twice in the pool's available list.
C13_NoDuplicateAvailable == NoDuplicates(wp.availableWorkers)

\* position of a status in pending -> in_progress -> (completed | failed)
StatusRank(st) == IF st = "pending" THEN 0 ELSE IF st = "in_progress" THEN 1 ELSE 2

\* C14: the status of a task only moves forward along
\* pending -> in_progress -> (completed | failed), and a completed or failed
\* task keeps its status.
C14_StatusMonotone ==
  [][\A i \in 1..Len(tqTasks) :
       /\ StatusRank(tqTasks'[i].status) >= StatusRank(tqTasks[i].status)
       /\ tqTasks[i].status \in {"completed", "failed"}
            => tqTasks'[i].status = tqTasks[i].status
    ]_vars

\* C15: a pending task changes status only in a getNextBatch call that
\* returns it, and no task is returned by getNextBatch twice.
C15_PendingLeftByDraw ==
  [][\A i \in 1..Len(tqTasks) :
       /\ (tqTasks[i].status = "pending" /\ tqTasks'[i].status # "pending")
            => tqCall'.op = "getNextBatch" /\ Includes(tqCall'.ret, tqTasks[i].id)
       /\ tqDraws'[i] <= 1
    ]_vars

\* positions of the pending tasks
PendingPositions == {i \in 1..Len(tqTasks) : tqTasks[i].status = "pending"}

\* C16: getNextBatch(limit) returns the first min(limit, pending) pending
\* tasks in insertion order, sets exactly those to in_progress, changes no
\* other task, and returns no task an earlier call returned.
C16_NextBatch ==
  [][tqCall'.op = "getNextBatch" =>
       LET r == tqCall'.ret
           drawn == {i \in 1..Len(tqTasks) : Includes(r, tqTasks[i].id)}
       IN /\ Len(r) = Min(tqCall'.batchSize, Cardinality(PendingPositions))
          /\ Cardinality(drawn) = Len(r)
          /\ drawn \subseteq PendingPositions
          /\ \A k \in 1..(Len(r) - 1) : FindTask(tqTasks, r[k]) < FindTask(tqTasks, r[k + 1])
          /\ \A i \in PendingPositions \ drawn : \A j \in drawn : j < i
          /\ Len(tqTasks') = Len(tqTasks)
          /\ \A i \in 1..Len(tqTasks) :
               IF i \in drawn
               THEN tqTasks'[i].status = "in_progress" /\ tqDraws[i] = 0
               ELSE tqTasks'[i] = tqTasks[i]
    ]_vars

\* a call with limit 1 took the second task: the first was drawn before,
\* the third stays pending
C16_Witness ==
  /\ tqCall.op = "getNextBatch" /\ tqCall.batchSize = 1 /\ tqCall.ret = <<2>>
  /\ Len(tqTasks) = 3
  /\ tqTasks[1].status # "pending"
  /\ tqTasks[2].status = "in_progress"
  /\ tqTasks[3].status = "pending"

\* C17: the attempts counter of a task is the number of times getNextBatch
\* returned it: 0 for a new task, one more after each draw, untouched by
\* every other call.
C17_Attempts ==
  /\ Len(tqDraws) = Len(tqTasks)
  /\ \A i \in 1..Len(tqTasks) : tqTasks[i].attempts = tqDraws[i]

\* one task drawn and then completed, one failed without ever being drawn
C17_Witness ==
  /\ Len(tqTasks) = 3
  /\ tqTasks[1].status = "completed" /\ tqTasks[1].attempts = 1
  /\ tqTasks[2].status = "failed" /\ tqTasks[2].attempts = 0
  /\ tqTasks[3].status = "in_progress" /\ tqTasks[3].attempts = 1

\* C18: no execute call gets past the entry guard when there was no worker
\* to count on at submission (empty flat list, or a pool with nothing
\* available): every accepted call saw at least one.
C18_NoCapacityRejected == pc # "idle" => availAtSubmit > 0

\* C19: createPool with a registered name fails as a duplicate and leaves
\* the pools, the limit and the statistics as they were.
C19_DuplicateName ==
  [][(mgrResult' \in {"duplicate", "exhausted", "created"}
        /\ pools[mgrCall'.name] # NoPool)
       => /\ mgrResult' = "duplicate"
          /\ pools' = pools
          /\ resourceLimits' = resourceLimits
          /\ getStats' = getStats
    ]_vars

\* a duplicate createPool on a pool that holds a worker
C19_Witness ==
  /\ mgrResult = "duplicate"
  /\ mgrCall.name \in Registered
  /\ getTotalCount(pools[mgrCall.name]) > 0

\* C20: createPool with a fresh name fails as exhausted exactly when
\* remaining = limit - workers of the registered pools is <= 0; otherwise
\* the new pool's capacity is min(requested maxWorkers, remaining), it holds
\* at most that many of the initial workers, and no pool ever holds more
\* workers than its capacity.
C20_ClampedCapacity ==
  [][/\ (mgrResult' \in {"exhausted", "created"} /\ pools[mgrCall'.name] = NoPool)
          => LET name == mgrCall'.name
                 requested == mgrCall'.maxWorkers
                 remaining == resourceLimits
                                - SumOver([n \in PoolNames |-> Len(pools[n].workers)], Registered)
                 capacity == IF requested <= remaining THEN requested ELSE remaining
             IN /\ mgrResult' = "exhausted" <=> remaining <= 0
                /\ mgrResult' = "exhausted" => pools' = pools
                /\ mgrResult' = "created" =>
                     /\ pools'[name] # NoPool
                     /\ pools'[name].maxWorkers = capacity
                     /\ \A n \in PoolNames \ {name} : pools'[n] = pools[n]
     /\ \A n \in PoolNames :
          /\ pools'[n] # NoPool => Len(pools'[n].workers) <= pools'[n].maxWorkers
          /\ (pools[n] # NoPool /\ pools'[n] # NoPool)
               => pools'[n].maxWorkers = pools[n].maxWorkers
    ]_vars

\* a request for more than what remains was clamped, and the initial
\* workers beyond the clamped capacity were left out
C20_Witness ==
  /\ mgrResult = "created"
  /\ mgrCall.maxWorkers > pools[mgrCall.name].maxWorkers
  /\ getTotalCount(pools[mgrCall.name]) = pools[mgrCall.name].maxWorkers
  /\ \E n \in Registered \ {mgrCall.name} : getTotalCount(pools[n]) > 0


\* C21: removePool(name) returns true exactly when a pool of that name was
\* registered; afterwards the name is not registered (getPool finds
\* nothing), the other pools are untouched, the capacity left for later
\* createPool calls has grown by the removed pool's workers, and a
\* createPool on a name that is not registered is never refused as a
\* duplicate.
C21_RemovePool ==
  [][/\ mgrResult' \in {"removed", "notfound"}
          => LET name == mgrCall'.name
                 held(ps) == SumOver([n \in PoolNames |-> Len(ps[n].workers)],
                                     {n \in PoolNames : ps[n] # NoPool})
             IN /\ mgrResult' = "removed" <=> pools[name] # NoPool
                /\ pools'[name] = NoPool
                /\ \A n \in PoolNames \ {name} : pools'[n] = pools[n]
                /\ resourceLimits' = resourceLimits
                /\ (resourceLimits' - held(pools'))
                     = (resourceLimits - held(pools)) + Len(pools[name].workers)
     /\ (mgrResult' \in {"duplicate", "exhausted", "created"}
           /\ pools[mgrCall'.name] = NoPool)
          => mgrResult' # "duplicate"
    ]_vars

\* a pool was removed while another pool holding workers stays registered
C21_Witness ==
  /\ mgrResult = "removed"
  /\ pools[mgrCall.name] = NoPool
  /\ \E n \in Registered : getTotalCount(pools[n]) > 0


\* C22: addWorker on a pool that already holds maxWorkers workers returns
\* false and leaves workers and available as they were; otherwise it
\* returns true and appends the worker to both. After every operation the
\* pool holds at most maxWorkers workers and every available worker is one
\* of its workers.
C22_AddWorker ==
  [][/\ wpCall'.op = "addWorker"
          => LET w == wpCall'.worker IN
             /\ wpCall'.ok <=> Len(wp.workers) < wp.maxWorkers
             /\ ~wpCall'.ok => wp' = wp
             /\ wpCall'.ok =>
                  /\ wp'.workers = Append(wp.workers, w)
                  /\ wp'.availableWorkers = Append(wp.availableWorkers, w)
                  /\ wp'.maxWorkers = wp.maxWorkers
     /\ Len(wp'.workers) <= wp'.maxWorkers
     /\ \A i \in 1..Len(wp'.availableWorkers) :
          Includes(wp'.workers, wp'.availableWorkers[i])
    ]_vars

\* an addWorker refused by a full pool, one of whose workers is borrowed
C22_Witness ==
  /\ wpCall.op = "addWorker"
  /\ ~wpCall.ok
  /\ Len(wp.workers) = wp.maxWorkers
  /\ Len(wp.availableWorkers) < Len(wp.workers)


\* C23: when execute has resolved, the status is exactly: no active worker,
\* no pending task, completedTasks = number of successful results
\* returned, failedTasks = number of failed results returned, and
\* isExecuting false.
C23_FinalStatus ==
  pc = "resolved" =>
    status = [activeWorkers |-> 0,
              pendingTasks |-> 0,
              completedTasks |-> Cardinality({j \in 1..Len(ret) : ret[j].success}),
              failedTasks |-> Cardinality({j \in 1..Len(ret) : ~ret[j].success}),
              isExecuting |-> FALSE]

\* a resolved execute whose results mix successes and failures
C23_Witness ==
  /\ pc = "resolved"
  /\ \E j \in 1..Len(ret) : ret[j].success
  /\ \E j \in 1..Len(ret) : ~ret[j].success


\* C24: in an accepted execute the first batch's fetchBatch is invoked
\* without a wait, in the call itself; every later batch that got a worker
\* waits for workerLaunchDelayMs first, unless the delay is zero, in which
\* case it is invoked in the call too, after the first batch. A later
\* batch's fetchBatch is invoked only when its wait ends. So the first
\* fetchBatch invoked is always that of the first batch.
C24_Stagger ==
  [][/\ (pc # "running" /\ pc' = "running")
          => /\ \A i \in 1..Len(bstate') :
                  bstate'[i] # "skipped"
                    => (bstate'[i] = "sleeping"
                          <=> (i > 1 /\ config.workerLaunchDelayMs # 0))
             /\ Len(launchOrder') = Cardinality({i \in 1..Len(bstate') :
                                        bstate'[i] \in {"fetching", "settled"}})
             /\ \A j, k \in 1..Len(launchOrder') :
                  j < k => launchOrder'[j] < launchOrder'[k]
     /\ (pc = "running" /\ launchOrder' # launchOrder)
          => \E i \in 2..Len(bstate) :
               /\ bstate[i] = "sleeping"
               /\ bstate'[i] # "sleeping"
               /\ config.workerLaunchDelayMs # 0
               /\ launchOrder' = Append(launchOrder, i)
     /\ \A i \in 1..Len(bstate') :
          (bstate'[i] \in {"fetching", "settled"})
            <=> (\E j \in 1..Len(launchOrder') : launchOrder'[j] = i)
     /\ launchOrder' # <<>> => launchOrder'[1] = 1
    ]_vars

\* a later batch, launched after its wait, has completed while the first
\* batch is still being fetched
C24_Witness ==
  /\ pc = "running"
  /\ config.workerLaunchDelayMs # 0
  /\ Len(launchOrder) >= 2
  /\ launchOrder[1] = 1
  /\ bstate[1] = "fetching"
  /\ bstate[launchOrder[2]] = "settled"


\* C25: fetchBatch runs the tasks of its batch one after another, in input
\* order: at most one operation is in progress, the operations were started
\* in the order of the input, the next one only after the previous one
\* produced its result; the call returns one result per task, in input
\* order.
C25_Sequential ==
  bw.call = "fetchBatch" =>
    /\ Cardinality(bw.running) <= 1
    /\ Len(bw.started) <= Len(bw.tasks)
    /\ \A j \in 1..Len(bw.started) : bw.started[j] = bw.tasks[j]
    /\ Len(bw.results) <= Len(bw.started)
    /\ Len(bw.started) <= Len(bw.results) + 1
    /\ Cardinality(bw.running) = Len(bw.started) - Len(bw.results)
    /\ bw.pc = "returned" =>
         /\ Len(bw.ret) = Len(bw.tasks)
         /\ \A j \in 1..Len(bw.ret) : bw.ret[j].taskId = bw.tasks[j]

\* a batch of three or more tasks returned by a worker with a delay
C25_Witness ==
  /\ bw.call = "fetchBatch"
  /\ bw.pc = "returned"
  /\ bw.delayMs # 0
  /\ Len(bw.ret) >= 3

\* C26: a failing operation never makes fetch or fetchBatch throw; the task
\* gets a failed result with its id and the error, every other task gets
\* a successful one, and after a failure the remaining tasks of the batch
\* are still started and reported.
C26_NeverThrows ==
  /\ bw.pc # "threw"
  /\ \A j \in 1..Len(bw.results) :
       /\ bw.results[j].taskId = bw.tasks[j]
       /\ bw.results[j].success <=> bw.tasks[j] \notin bw.failed
  /\ bw.pc = "returned" =>
       /\ bw.started = bw.tasks
       /\ Len(bw.ret) = Len(bw.tasks)
       /\ \A j \in 1..Len(bw.ret) :
            /\ bw.ret[j].taskId = bw.tasks[j]
            /\ bw.ret[j].success <=> bw.tasks[j] \notin bw.failed
            /\ bw.ret[j].success <=> bw.ret[j].error = "none"

\* a returned batch whose first task failed and whose last task succeeded
C26_Witness ==
  /\ bw.call = "fetchBatch"
  /\ bw.pc = "returned"
  /\ Len(bw.ret) >= 2
  /\ bw.tasks[1] \in bw.failed
  /\ ~bw.ret[1].success
  /\ bw.ret[Len(bw.ret)].success

\* C27: in an execute, no batch handed to a worker holds more than
\* maxTasksPerWorker tasks.
C27_BatchLimit ==
  \A i \in 1..Len(bstate) :
    bstate[i] # "skipped" => Len(taskBatches[i]) <= config.maxTasksPerWorker


\* C28: at every instant 0 <= activeWorkers <= maxConcurrentWorkers, and
\* the number of batches whose fetchBatch is in progress exceeds neither
\* maxConcurrentWorkers nor the number of workers that were available
\* when the tasks were submitted.
C28_ConcurrencyLimit ==
  LET running == Cardinality({i \in 1..Len(bstate) : bstate[i] = "fetching"})
  IN /\ 0 <= status.activeWorkers
     /\ status.activeWorkers <= config.maxConcurrentWorkers
     /\ running <= config.maxConcurrentWorkers
     /\ pc = "running" => running <= availAtSubmit

\* more workers and task groups than the limit, and the limit is reached
C28_Witness ==
  /\ pc = "running"
  /\ status.activeWorkers = config.maxConcurrentWorkers
  /\ availAtSubmit > config.maxConcurrentWorkers
  /\ Len(tasks) > config.maxConcurrentWorkers * config.maxTasksPerWorker


\* C29: for a limit of at least 1, initialize() settles by completing, and
\* then both controllers and both worker pools exist.
C29_InitializeCompletes ==
  (session.resourceLimits >= 1 /\ session.pc \in {"initialized", "rejected"})
    => /\ session.pc = "initialized"
       /\ \A name \in PoolNames :
            /\ session.controllers[name] # NoController
            /\ session.pools[name] # NoPool

\* C30: after a completed initialize(), an execute with a non-empty task
\* list on a controller obtained from getController settles by resolving
\* with one result per submitted task.
C30_ExecuteAfterInitialize ==
  (/\ session.pc = "initialized"
   /\ sessBound # "none"
   /\ pc \in {"resolved", "threw"}
   /\ Len(tasks) > 0)
    => /\ pc = "resolved"
       /\ Len(ret) = Len(tasks)


\* C31: getStats reports the live aggregate over the registered pools:
\* totalWorkers is the sum of their workers, availableWorkers the sum of
\* their available workers, poolCount their number, and availableWorkers
\* <= totalWorkers. A successful borrow lowers availableWorkers by one and
\* a successful return raises it by one, both leaving totalWorkers alone;
\* a refused call leaves the statistics as they were. The statistics are
\* read from the pools alone, so they are computed anew only for the
\* steps that change the pools.
C31_Stats ==
  [][LET reg(ps) == {n \in PoolNames : ps[n] # NoPool}
         tot(ps) == SumOver([n \in PoolNames |-> Len(ps[n].workers)], reg(ps))
         av(ps) == SumOver([n \in PoolNames |-> Len(ps[n].availableWorkers)], reg(ps))
         before == getStats
         after == IF pools' = pools THEN before ELSE getStats'
     IN /\ pools' # pools
             => /\ after = [totalWorkers |-> tot(pools'),
                            availableWorkers |-> av(pools'),
                            poolCount |-> Cardinality(reg(pools'))]
                /\ after.availableWorkers <= after.totalWorkers
        /\ mgrResult' = "borrowed"
             => /\ after.availableWorkers = before.availableWorkers - 1
                /\ after.totalWorkers = before.totalWorkers
                /\ after.poolCount = before.poolCount
        /\ mgrResult' = "returned"
             => /\ after.availableWorkers = before.availableWorkers + 1
                /\ after.totalWorkers = before.totalWorkers
                /\ after.poolCount = before.poolCount
        /\ mgrResult' \in {"none-available", "not-returned", "full",
                            "duplicate", "exhausted", "notfound"}
             => (pools' = pools \/ after = before)
        /\ mgrResult' = "created" => after.poolCount = before.poolCount + 1
        /\ mgrResult' = "removed" => after.poolCount = before.poolCount - 1
    ]_vars

\* two registered pools, a worker just borrowed from one of them
C31_Witness ==
  /\ mgrResult = "borrowed"
  /\ getStats.poolCount = 2
  /\ getStats.availableWorkers < getStats.totalWorkers
  /\ getStats.availableWorkers > 0


\* C32: in every queue state the four counts of getTaskCounts add up to
\* total, isComplete is true exactly when every task is completed or
\* failed (no task pending or in progress), and hasPendingTasks is true
\* exactly when the pending count is positive; an updateTaskStatus with an
\* id that no task has changes no task.
C32_Counts ==
  [][/\ LET c == getTaskCounts(tqTasks')
             n(st) == Cardinality({i \in 1..Len(tqTasks') : tqTasks'[i].status = st})
         IN /\ c.pending = n("pending")
            /\ c.inProgress = n("in_progress")
            /\ c.completed = n("completed")
            /\ c.failed = n("failed")
            /\ c.total = Len(tqTasks')
            /\ c.pending + c.inProgress + c.completed + c.failed = c.total
            /\ isComplete(tqTasks') <=> (n("pending") = 0 /\ n("in_progress") = 0)
            /\ isComplete(tqTasks') <=> (c.completed + c.failed = c.total)
            /\ hasPendingTasks(tqTasks') <=> c.pending > 0
     /\ (tqCall'.op = "updateTaskStatus"
           /\ \A i \in 1..Len(tqTasks) : tqTasks[i].id # tqCall'.taskId)
          => tqTasks' = tqTasks
    ]_vars

\* an update with an unknown id on a queue that has a pending task, a task
\* in progress and a finished one
C32_Witness ==
  /\ tqCall.op = "updateTaskStatus"
  /\ \A i \in 1..Len(tqTasks) : tqTasks[i].id # tqCall.taskId
  /\ getTaskCounts(tqTasks).pending > 0
  /\ getTaskCounts(tqTasks).inProgress > 0
  /\ getTaskCounts(tqTasks).completed + getTaskCounts(tqTasks).failed > 0


\* C36: for a non-empty task list that distributeTasks accepts, every batch
\* it produces is non-empty and the sizes of any two batches differ by at
\* most one.
C36_Fair ==
  (pc = "distributed" /\ Len(tasks) > 0) =>
    /\ Len(taskBatches) > 0
    /\ \A a \in 1..Len(taskBatches) : Len(taskBatches[a]) > 0
    /\ \A a, b \in 1..Len(taskBatches) :
         Len(taskBatches[a]) - Len(taskBatches[b]) <= 1

\* an odd number of tasks over two batches
C36_Witness ==
  /\ pc = "distributed"
  /\ Len(taskBatches) = 2
  /\ Len(taskBatches[1]) = Len(taskBatches[2]) + 1
  /\ Len(taskBatches[2]) >= 1


\* C34: no worker executes two batches at the same instant: two batches
\* whose fetchBatch is in progress run on different workers, and none
\* of them runs on the worker that the pool's other client holds.
C34_MutualExclusion ==
  \A i \in 1..Len(bstate) :
    bstate[i] = "fetching" =>
      /\ \A j \in 1..Len(bstate) :
           (j # i /\ bstate[j] = "fetching") => bworker[j] # bworker[i]
      /\ usePool => bworker[i] # extHeld


\* C35: in pool mode every batch of an accepted execute obtains a worker
\* in the call itself: as many workers are borrowed as there are batches,
\* none of the borrows yields the not-available indicator, no batch is
\* skipped, and there are no more batches than the pool had available
\* workers when the call was made.
C35_NoBatchSkipped ==
  [][(usePool /\ pc # "running" /\ pc' = "running")
       => /\ Len(borrowedWorkers') = Len(taskBatches')
          /\ \A k \in 1..Len(borrowedWorkers') : borrowedWorkers'[k] # 0
          /\ \A i \in 1..Len(bstate') : bstate'[i] # "skipped"
          /\ Len(taskBatches') <= getAvailableCount(pool)
    ]_vars

\* the other client holds a worker, so the available count, not the
\* configured maximum or the number of tasks, decided the number of batches
C35_Witness ==
  /\ usePool
  /\ pc = "running"
  /\ extHeld # 0
  /\ availAtSubmit = 1
  /\ Len(borrowedWorkers) = 1
  /\ config.maxConcurrentWorkers >= 2
  /\ Ceil(Len(tasks), config.maxTasksPerWorker) >= 2


\* C38: in each round of the V2 controller the slices handed to the
\* workers are contiguous pieces of the drawn tasks that together make up
\* the whole draw, each drawn task in exactly one of them; a worker is
\* left out only when its slice is empty; the tasks of a slice whose
\* fetchBatch call has settled, resolved or thrown, are completed or
\* failed, so when all calls have settled and processTasks resolves no
\* drawn task is left in_progress.
C38_DrawnSettled ==
  v2.pc = "processing" =>
    LET ConcatTo[k \in 0..Len(v2.slices)] ==
          IF k = 0 THEN <<>> ELSE ConcatTo[k - 1] \o v2.slices[k]
    IN
    /\ Len(v2.drawn) > 0
    /\ Len(v2.slices) = Len(v2.availableWorkers)
    /\ ConcatTo[Len(v2.slices)] = v2.drawn
    /\ \A a, b \in 1..Len(v2.drawn) : v2.drawn[a] = v2.drawn[b] => a = b
    /\ \A i \in 1..Len(v2.slices) :
         /\ v2.sstate[i] = "skipped" <=> v2.slices[i] = <<>>
         /\ \A j \in 1..Len(v2.slices[i]) :
              LET t == tqTasks[FindTask(tqTasks, v2.slices[i][j])] IN
              /\ v2.sstate[i] = "fetching" => t.status = "in_progress"
              /\ v2.sstate[i] = "done" => t.status \in {"completed", "failed"}
    /\ (\A i \in 1..Len(v2.sstate) : v2.sstate[i] # "fetching")
         => \A a \in 1..Len(v2.drawn) :
              tqTasks[FindTask(tqTasks, v2.drawn[a])].status \in {"completed", "failed"}

\* three tasks drawn for two workers; both calls have settled, one of
\* them by throwing
C38_Witness ==
  /\ v2.pc = "processing"
  /\ Len(v2.drawn) = 3
  /\ Len(v2.availableWorkers) = 2
  /\ \A i \in 1..Len(v2.sstate) : v2.sstate[i] = "done"
  /\ \E k \in 1..Len(v2.results) : v2.results[k].error = "batch"
  /\ \E k \in 1..Len(v2.results) : v2.results[k].success

\* C37: a call of fetchRegistrationOffices that is sleeping or has a round
\* in progress, on a pool that holds at least one worker, eventually
\* returns with no task pending and with every worker it took back in
\* the pool.
C37_Terminates ==
  (v2.pc \in {"waiting", "processing"} /\ Len(lp.workers) >= 1)
    ~> (/\ v2.pc = "returned"
        /\ ~hasPendingTasks(tqTasks)
        /\ lp.busyWorkers \subseteq otherHeld)


\* C39: when the monitor's final status reaches the version record, start()
\* has submitted its tasks, every task of the queue is completed or
\* failed, and the status written is 'completed_with_errors' exactly when
\* some task failed.
C39_FinalAfterTasks ==
  [][(qs.tick.pc = "final" /\ qs'.tick.pc = "idle")
       => /\ qs.startPc = "fetching"
          /\ isComplete(tqTasks)
          /\ version'.status \in {"completed", "completed_with_errors"}
          /\ version'.status = "completed_with_errors"
               <=> CountStatus(tqTasks, "failed") > 0
    ]_vars

\* C33: once stop() has resolved, no step of the monitor's tick changes
\* the version record.
C33_MonitorSilentAfterStop ==
  [][(qs.stopPc = "resolved" /\ qs'.tick # qs.tick) => version' = version]_vars

====
